---- MODULE Spec2Model ----
(***************************************************************************)
(* Mighty Men of David: the game engine (GameActions of game-logic.js,     *)
(* printed in README.md and inlined in worker.js), the key-value request   *)
(* handlers of worker.js and the WebRTC host of webrtc-transport.js.       *)
(***************************************************************************)
EXTENDS Integers, Sequences, FiniteSets, TLC

(* ------------------------------------------------------------------ *)
(* Bounds of the model                                                  *)
(* ------------------------------------------------------------------ *)
\* roster sizes explored beyond the six players a start needs
ExtraPlayers == 0
\* seeds of the random source explored by start (shuffle and leader draw)
MaxSeed == 3
\* how many roster (or team) members who have not voted yet a voter may overtake
MaxSkip == 0
\* proposals a quest may see rejected and still have one approved, summed with
\* the quest index
MaxRetry == 1
\* how far Date.now() advances
MaxClock == 1
\* concurrent requests in flight on the key-value server
MaxHandlers == 2
\* the last quest index a WebRTC session is followed into
MaxHostQuest == 0
\* seeds of the random source explored when roles are dealt to every party size
MaxDeal == 16
\* callers of withGameLock (dev-server.js)
MaxCallers == 3
\* the largest party size assignRoles is called with on its own
MaxParty == 14

(* ------------------------------------------------------------------ *)
(* Program constants                                                    *)
(* ------------------------------------------------------------------ *)
LOBBY == "lobby"
TEAM_SELECTION == "team_selection"
TEAM_VOTE == "team_vote"
VOTE_RESULT == "vote_result"
QUEST == "quest"
QUEST_RESULT == "quest_result"
ASSASSINATION == "assassination"
GAME_OVER == "game_over"

GAME_PHASES ==
  {LOBBY, TEAM_SELECTION, TEAM_VOTE, VOTE_RESULT, QUEST, QUEST_RESULT,
   ASSASSINATION, GAME_OVER}

SAMUEL == "samuel"
DAVID == "david"
MIGHTY_MAN == "mighty_man"
SAUL == "saul"
PHINEHAS == "phinehas"
DOEG == "doeg"
SHEEP == "sheep"

GOOD_ROLES == {SAMUEL, DAVID, MIGHTY_MAN}
EVIL_ROLES == {SAUL, PHINEHAS, DOEG, SHEEP}

QUEST_SIZES == <<3, 4, 5, 6, 6>>
\* one fail enough on every quest
QUEST_FAIL_REQUIREMENTS_allOne == <<1, 1, 1, 1, 1>>
QUEST_FAIL_REQUIREMENTS == <<1, 1, 1, 2, 1>>

TEAM_COMPOSITION ==
  [n \in 6..12 |->
     CASE n = 6 -> [good |-> 4, evil |-> 2]
       [] n = 7 -> [good |-> 4, evil |-> 3]
       [] n = 8 -> [good |-> 5, evil |-> 3]
       [] n = 9 -> [good |-> 6, evil |-> 3]
       [] n = 10 -> [good |-> 6, evil |-> 4]
       [] n = 11 -> [good |-> 7, evil |-> 4]
       [] n = 12 -> [good |-> 8, evil |-> 4]]

MinPlayers == 6
MaxPlayers == 12
MaxRejects == 5
WinsNeeded == 3

\* JavaScript null / undefined of the record's nullable fields
NullRole == "null"
NullWinner == "null"
NullReason == "null"
NullTarget == 0
NoError == ""

\* the id generatePlayerId gives the k-th player created (fresh every time)
generatePlayerId(k) == 100 + k
\* an id no player of the game holds
StrangerId == 99


(* ------------------------------------------------------------------ *)
(* Values                                                               *)
(* ------------------------------------------------------------------ *)
\* a display name: a base spelling and whether it is written in capitals
Name(k, caps) == [base |-> k, caps |-> caps]
toLowerCase(name) == [base |-> name.base, caps |-> FALSE]

GameCode == "GAME"

\* game.lastVoteResult before the first completed vote (undefined)
NoVoteResult ==
  [defined |-> FALSE, approved |-> FALSE, approveCount |-> 0, rejectCount |-> 0,
   votes |-> <<>>, team |-> <<>>]

EmptyMap == <<>>

\* Object.keys(map).length
KeyCount(map) == Cardinality(DOMAIN map)
\* map[key] !== undefined
HasKey(map, key) == key \in DOMAIN map
\* map[key] = value
Put(map, key, value) == [k \in (DOMAIN map) \cup {key} |-> IF k = key THEN value ELSE map[k]]
\* Object.values(map).filter(v => v === value).length
CountValues(map, value) == Cardinality({k \in DOMAIN map : map[k] = value})

\* array.includes(x)
Includes(array, x) == \E i \in 1..Len(array) : array[i] = x

isEvil(role) == role \in EVIL_ROLES

\* game.players.some(p => p.id === playerId)
HasPlayer(game, playerId) == \E i \in 1..Len(game.players) : game.players[i].id = playerId
\* index (1-based) of game.players.find(p => p.id === playerId): the first match
FindIndex(game, playerId) ==
  CHOOSE i \in 1..Len(game.players) :
    /\ game.players[i].id = playerId
    /\ \A j \in 1..(i - 1) : game.players[j].id # playerId
FindPlayer(game, playerId) == game.players[FindIndex(game, playerId)]

\* the outcome of one call of an action: the object after the call, and the
\* message of the Error it threw (NoError when it returned)
Accept(game) == [game |-> game, error |-> NoError]
Reject(game, message) == [game |-> game, error |-> message]

(* ------------------------------------------------------------------ *)
(* Role assignment                                                      *)
(* ------------------------------------------------------------------ *)
\* Math.random() of the k-th call after seeding, in sixteenths
RandomUnit(seed, k) == (seed * 7 + k * 5) % 16
\* Math.floor(Math.random() * m)
RandomInt(seed, k, m) == (RandomUnit(seed, k) * m) \div 16

Swap(array, a, b) == [array EXCEPT ![a] = array[b], ![b] = array[a]]

\* for (i = arr.length - 1; i > 0; i--) swap arr[i], arr[draws[i]]  (0-based i)
RECURSIVE ShuffleFrom(_, _, _)
ShuffleFrom(array, i, draws) ==
  IF i <= 0 THEN array
  ELSE ShuffleFrom(Swap(array, i + 1, draws[i] + 1), i - 1, draws)

shuffleArray(array, draws) == ShuffleFrom(array, Len(array) - 1, draws)

\* the draws of one shuffle of n elements from a seeded source: call number
\* n - i decides position i
SeededDraws(seed, n) == [i \in 1..(n - 1) |-> RandomInt(seed, n - i, i + 1)]

Repeat(x, n) == [i \in 1..n |-> x]

Min(a, b) == IF a < b THEN a ELSE b

\* the role list in which the first spare Evil seat goes to a Sheep, not to Doeg
RoleList_noDoeg(playerCount) ==
  LET composition == TEAM_COMPOSITION[Min(playerCount, 12)]
      goodRemaining == composition.good - 2
      evilAfterSpecials == composition.evil - 2
  IN <<SAMUEL, DAVID, SAUL, PHINEHAS>> \o Repeat(SHEEP, evilAfterSpecials)
       \o Repeat(MIGHTY_MAN, goodRemaining)

RoleList(playerCount) ==
  LET composition == TEAM_COMPOSITION[Min(playerCount, 12)]
      goodRemaining == composition.good - 2
      evilAfterSpecials == composition.evil - 2
      doeg == IF evilAfterSpecials > 0 THEN <<DOEG>> ELSE <<>>
      evilRemaining == IF evilAfterSpecials > 0 THEN evilAfterSpecials - 1
                       ELSE evilAfterSpecials
  IN <<SAMUEL, DAVID, SAUL, PHINEHAS>> \o doeg \o Repeat(SHEEP, evilRemaining)
       \o Repeat(MIGHTY_MAN, goodRemaining)

assignRoles(playerCount, draws) == shuffleArray(RoleList(playerCount), draws)

(* ------------------------------------------------------------------ *)
(* Game record                                                          *)
(* ------------------------------------------------------------------ *)
NewPlayer(id, name, isHost, time) ==
  [id |-> id, name |-> name, role |-> NullRole, isHost |-> isHost,
   connected |-> TRUE, lastSeen |-> time]

createGame(hostName, time) ==
  [code |-> GameCode,
   phase |-> LOBBY,
   hostId |-> generatePlayerId(1),
   players |-> <<NewPlayer(generatePlayerId(1), hostName, TRUE, time)>>,
   currentQuest |-> 0,
   questResults |-> <<>>,
   leaderIndex |-> 0,
   proposedTeam |-> <<>>,
   votes |-> EmptyMap,
   questVotes |-> EmptyMap,
   rejectCount |-> 0,
   assassinationTarget |-> NullTarget,
   winner |-> NullWinner,
   winReason |-> NullReason,
   lastVoteResult |-> NoVoteResult,
   createdAt |-> time,
   updatedAt |-> time]

\* game.players[game.leaderIndex]?.id
LeaderId(game) ==
  IF game.leaderIndex + 1 \in 1..Len(game.players)
  THEN game.players[game.leaderIndex + 1].id ELSE NullTarget

(* ------------------------------------------------------------------ *)
(* GameActions: each validates, then mutates the record it is given     *)
(* ------------------------------------------------------------------ *)
join(game, playerName, time) ==
  IF game.phase # LOBBY THEN Reject(game, "Game has already started")
  ELSE IF Len(game.players) >= MaxPlayers THEN Reject(game, "Game is full")
  ELSE IF \E i \in 1..Len(game.players) :
            toLowerCase(game.players[i].name) = toLowerCase(playerName)
    THEN Reject(game, "Name already taken")
  ELSE Accept([game EXCEPT
         !.players = Append(@, NewPlayer(generatePlayerId(Len(game.players) + 1),
                                         playerName, FALSE, time)),
         !.updatedAt = time])

rejoin(game, playerId, time) ==
  IF ~HasPlayer(game, playerId) THEN Reject(game, "Player not found in this game")
  ELSE Accept([game EXCEPT
         !.players[FindIndex(game, playerId)].connected = TRUE,
         !.players[FindIndex(game, playerId)].lastSeen = time,
         !.updatedAt = time])

\* start with its host check left out
start_anyone(game, playerId, seed, time) ==
  IF game.phase # LOBBY THEN Reject(game, "Game has already started")
  ELSE IF Len(game.players) < MinPlayers
    THEN Reject(game, "Need at least 6 players to start")
  ELSE
    LET n == Len(game.players)
        roles == assignRoles(n, SeededDraws(seed, n))
    IN Accept([game EXCEPT
         !.players = [i \in 1..n |-> [game.players[i] EXCEPT !.role = roles[i]]],
         !.leaderIndex = RandomInt(seed, n, n),
         !.phase = TEAM_SELECTION,
         !.updatedAt = time])

\* start dealing no role to the player who joined last
start_lastUndealt(game, playerId, seed, time) ==
  IF ~HasPlayer(game, playerId) \/ ~FindPlayer(game, playerId).isHost
    THEN Reject(game, "Only the host can start the game")
  ELSE IF game.phase # LOBBY THEN Reject(game, "Game has already started")
  ELSE IF Len(game.players) < MinPlayers
    THEN Reject(game, "Need at least 6 players to start")
  ELSE
    LET n == Len(game.players)
        roles == assignRoles(n, SeededDraws(seed, n))
    IN Accept([game EXCEPT
         !.players = [i \in 1..n |-> [game.players[i] EXCEPT
                                  !.role = IF i = n THEN NullRole ELSE roles[i]]],
         !.leaderIndex = RandomInt(seed, n, n),
         !.phase = TEAM_SELECTION,
         !.updatedAt = time])

start(game, playerId, seed, time) ==
  IF ~HasPlayer(game, playerId) \/ ~FindPlayer(game, playerId).isHost
    THEN Reject(game, "Only the host can start the game")
  ELSE IF game.phase # LOBBY THEN Reject(game, "Game has already started")
  ELSE IF Len(game.players) < MinPlayers
    THEN Reject(game, "Need at least 6 players to start")
  ELSE
    LET n == Len(game.players)
        roles == assignRoles(n, SeededDraws(seed, n))
    IN Accept([game EXCEPT
         !.players = [i \in 1..n |-> [game.players[i] EXCEPT !.role = roles[i]]],
         !.leaderIndex = RandomInt(seed, n, n),
         !.phase = TEAM_SELECTION,
         !.updatedAt = time])

\* propose with its phase guard left out
propose_anyPhase(game, playerId, team, time) ==
  IF LeaderId(game) # playerId
    THEN Reject(game, "Only the leader can propose a team")
  ELSE IF Len(team) # QUEST_SIZES[game.currentQuest + 1]
    THEN Reject(game, "Team must have exactly the quest size")
  ELSE IF \E i \in 1..Len(team) : ~HasPlayer(game, team[i])
    THEN Reject(game, "Invalid team member")
  ELSE Accept([game EXCEPT
         !.proposedTeam = team,
         !.votes = EmptyMap,
         !.phase = TEAM_VOTE,
         !.updatedAt = time])

propose(game, playerId, team, time) ==
  IF game.phase # TEAM_SELECTION THEN Reject(game, "Not in team selection phase")
  ELSE IF LeaderId(game) # playerId
    THEN Reject(game, "Only the leader can propose a team")
  ELSE IF Len(team) # QUEST_SIZES[game.currentQuest + 1]
    THEN Reject(game, "Team must have exactly the quest size")
  ELSE IF \E i \in 1..Len(team) : ~HasPlayer(game, team[i])
    THEN Reject(game, "Invalid team member")
  ELSE Accept([game EXCEPT
         !.proposedTeam = team,
         !.votes = EmptyMap,
         !.phase = TEAM_VOTE,
         !.updatedAt = time])

\* a tie counted as approval
Majority_tieApproves(approveCount, playerCount) == 2 * approveCount >= playerCount

\* approveCount > game.players.length / 2
Majority(approveCount, playerCount) == 2 * approveCount > playerCount

\* vote recording the value before it checks for a duplicate
vote_recordFirst(game, playerId, approve, time) ==
  IF game.phase # TEAM_VOTE THEN Reject(game, "Not in voting phase")
  ELSE IF ~HasPlayer(game, playerId) THEN Reject(game, "Player not found")
  ELSE IF HasKey(game.votes, playerId)
    THEN Reject([game EXCEPT !.votes = Put(game.votes, playerId, approve),
                             !.updatedAt = time + 1], "Already voted")
  ELSE
    LET votes == Put(game.votes, playerId, approve)
        recorded == [game EXCEPT !.votes = votes, !.updatedAt = time]
        approveCount == CountValues(votes, TRUE)
    IN IF KeyCount(votes) = Len(game.players)
       THEN Accept([recorded EXCEPT
              !.lastVoteResult =
                 [defined |-> TRUE,
                  approved |-> Majority(approveCount, Len(game.players)),
                  approveCount |-> approveCount,
                  rejectCount |-> Len(game.players) - approveCount,
                  votes |-> votes,
                  team |-> game.proposedTeam],
              !.phase = VOTE_RESULT])
       ELSE Accept(recorded)

\* vote without its already-voted check: a later vote replaces the earlier one
vote_again(game, playerId, approve, time) ==
  IF game.phase # TEAM_VOTE THEN Reject(game, "Not in voting phase")
  ELSE IF ~HasPlayer(game, playerId) THEN Reject(game, "Player not found")
  ELSE
    LET votes == Put(game.votes, playerId, approve)
        recorded == [game EXCEPT !.votes = votes, !.updatedAt = time]
        approveCount == CountValues(votes, TRUE)
    IN IF KeyCount(votes) = Len(game.players)
       THEN Accept([recorded EXCEPT
              !.lastVoteResult =
                 [defined |-> TRUE,
                  approved |-> Majority(approveCount, Len(game.players)),
                  approveCount |-> approveCount,
                  rejectCount |-> Len(game.players) - approveCount,
                  votes |-> votes,
                  team |-> game.proposedTeam],
              !.phase = VOTE_RESULT])
       ELSE Accept(recorded)

\* vote closing the round once every connected player has voted
vote_connectedQuorum(game, playerId, approve, time) ==
  IF game.phase # TEAM_VOTE THEN Reject(game, "Not in voting phase")
  ELSE IF ~HasPlayer(game, playerId) THEN Reject(game, "Player not found")
  ELSE IF HasKey(game.votes, playerId) THEN Reject(game, "Already voted")
  ELSE
    LET votes == Put(game.votes, playerId, approve)
        recorded == [game EXCEPT !.votes = votes, !.updatedAt = time]
        approveCount == CountValues(votes, TRUE)
    IN IF KeyCount(votes) =
            Cardinality({i \in 1..Len(game.players) : game.players[i].connected})
       THEN Accept([recorded EXCEPT
              !.lastVoteResult =
                 [defined |-> TRUE,
                  approved |-> Majority(approveCount, Len(game.players)),
                  approveCount |-> approveCount,
                  rejectCount |-> Len(game.players) - approveCount,
                  votes |-> votes,
                  team |-> game.proposedTeam],
              !.phase = VOTE_RESULT])
       ELSE Accept(recorded)

vote(game, playerId, approve, time) ==
  IF game.phase # TEAM_VOTE THEN Reject(game, "Not in voting phase")
  ELSE IF ~HasPlayer(game, playerId) THEN Reject(game, "Player not found")
  ELSE IF HasKey(game.votes, playerId) THEN Reject(game, "Already voted")
  ELSE
    LET votes == Put(game.votes, playerId, approve)
        recorded == [game EXCEPT !.votes = votes, !.updatedAt = time]
        approveCount == CountValues(votes, TRUE)
    IN IF KeyCount(votes) = Len(game.players)
       THEN Accept([recorded EXCEPT
              !.lastVoteResult =
                 [defined |-> TRUE,
                  approved |-> Majority(approveCount, Len(game.players)),
                  approveCount |-> approveCount,
                  rejectCount |-> Len(game.players) - approveCount,
                  votes |-> votes,
                  team |-> game.proposedTeam],
              !.phase = VOTE_RESULT])
       ELSE Accept(recorded)

\* continueFromVote that keeps rejectCount when the proposal was approved
continueFromVote_noReset(game, playerId, time) ==
  IF game.phase # VOTE_RESULT THEN Reject(game, "Not in vote result phase")
  ELSE IF ~HasPlayer(game, playerId) \/ ~FindPlayer(game, playerId).isHost
    THEN Reject(game, "Only the host can continue")
  ELSE IF game.lastVoteResult.approved
    THEN Accept([game EXCEPT
           !.questVotes = EmptyMap,
           !.phase = QUEST,
           !.updatedAt = time])
  ELSE IF game.rejectCount + 1 >= MaxRejects
    THEN Accept([game EXCEPT
           !.rejectCount = @ + 1,
           !.phase = GAME_OVER,
           !.winner = "evil",
           !.winReason = "Five consecutive team proposals were rejected",
           !.updatedAt = time])
  ELSE Accept([game EXCEPT
           !.rejectCount = @ + 1,
           !.leaderIndex = (@ + 1) % Len(game.players),
           !.proposedTeam = <<>>,
           !.votes = EmptyMap,
           !.phase = TEAM_SELECTION,
           !.updatedAt = time])

\* continueFromVote passing the lead on without counting the rejection
continueFromVote_skipsCount(game, playerId, time) ==
  IF game.phase # VOTE_RESULT THEN Reject(game, "Not in vote result phase")
  ELSE IF ~HasPlayer(game, playerId) \/ ~FindPlayer(game, playerId).isHost
    THEN Reject(game, "Only the host can continue")
  ELSE IF game.lastVoteResult.approved
    THEN Accept([game EXCEPT
           !.questVotes = EmptyMap,
           !.phase = QUEST,
           !.rejectCount = 0,
           !.updatedAt = time])
  ELSE IF game.rejectCount + 1 >= MaxRejects
    THEN Accept([game EXCEPT
           !.rejectCount = @ + 1,
           !.phase = GAME_OVER,
           !.winner = "evil",
           !.winReason = "Five consecutive team proposals were rejected",
           !.updatedAt = time])
  ELSE Accept([game EXCEPT
           !.leaderIndex = (@ + 1) % Len(game.players),
           !.proposedTeam = <<>>,
           !.votes = EmptyMap,
           !.phase = TEAM_SELECTION,
           !.updatedAt = time])

\* continueFromVote returning to the selection with the same leader
continueFromVote_keepsLeader(game, playerId, time) ==
  IF game.phase # VOTE_RESULT THEN Reject(game, "Not in vote result phase")
  ELSE IF ~HasPlayer(game, playerId) \/ ~FindPlayer(game, playerId).isHost
    THEN Reject(game, "Only the host can continue")
  ELSE IF game.lastVoteResult.approved
    THEN Accept([game EXCEPT
           !.questVotes = EmptyMap,
           !.phase = QUEST,
           !.rejectCount = 0,
           !.updatedAt = time])
  ELSE IF game.rejectCount + 1 >= MaxRejects
    THEN Accept([game EXCEPT
           !.rejectCount = @ + 1,
           !.phase = GAME_OVER,
           !.winner = "evil",
           !.winReason = "Five consecutive team proposals were rejected",
           !.updatedAt = time])
  ELSE Accept([game EXCEPT
           !.rejectCount = @ + 1,
           !.proposedTeam = <<>>,
           !.votes = EmptyMap,
           !.phase = TEAM_SELECTION,
           !.updatedAt = time])

continueFromVote(game, playerId, time) ==
  IF game.phase # VOTE_RESULT THEN Reject(game, "Not in vote result phase")
  ELSE IF ~HasPlayer(game, playerId) \/ ~FindPlayer(game, playerId).isHost
    THEN Reject(game, "Only the host can continue")
  ELSE IF game.lastVoteResult.approved
    THEN Accept([game EXCEPT
           !.questVotes = EmptyMap,
           !.phase = QUEST,
           !.rejectCount = 0,
           !.updatedAt = time])
  ELSE IF game.rejectCount + 1 >= MaxRejects
    THEN Accept([game EXCEPT
           !.rejectCount = @ + 1,
           !.phase = GAME_OVER,
           !.winner = "evil",
           !.winReason = "Five consecutive team proposals were rejected",
           !.updatedAt = time])
  ELSE Accept([game EXCEPT
           !.rejectCount = @ + 1,
           !.leaderIndex = (@ + 1) % Len(game.players),
           !.proposedTeam = <<>>,
           !.votes = EmptyMap,
           !.phase = TEAM_SELECTION,
           !.updatedAt = time])

\* questVote without the rule that Good players must support the quest
questVote_goodMayFail(game, playerId, success, time) ==
  IF game.phase # QUEST THEN Reject(game, "Not in quest phase")
  ELSE IF ~Includes(game.proposedTeam, playerId)
    THEN Reject(game, "You are not on this quest")
  ELSE IF ~HasPlayer(game, playerId) THEN Reject(game, "TypeError")
  ELSE IF HasKey(game.questVotes, playerId)
    THEN Reject(game, "Already submitted quest vote")
  ELSE
    LET questVotes == Put(game.questVotes, playerId, success)
        recorded == [game EXCEPT !.questVotes = questVotes, !.updatedAt = time]
        failCount == CountValues(questVotes, FALSE)
    IN IF KeyCount(questVotes) = Len(game.proposedTeam)
       THEN Accept([recorded EXCEPT
              !.questResults = Append(@,
                 [success |-> failCount < QUEST_FAIL_REQUIREMENTS[game.currentQuest + 1],
                  failCount |-> failCount,
                  successCount |-> CountValues(questVotes, TRUE),
                  team |-> game.proposedTeam]),
              !.phase = QUEST_RESULT])
       ELSE Accept(recorded)

\* questVote keeping only the newest result
questVote_overwrites(game, playerId, success, time) ==
  IF game.phase # QUEST THEN Reject(game, "Not in quest phase")
  ELSE IF ~Includes(game.proposedTeam, playerId)
    THEN Reject(game, "You are not on this quest")
  ELSE IF ~HasPlayer(game, playerId) THEN Reject(game, "TypeError")
  ELSE IF ~isEvil(FindPlayer(game, playerId).role) /\ ~success
    THEN Reject(game, "Good players must support the quest")
  ELSE IF HasKey(game.questVotes, playerId)
    THEN Reject(game, "Already submitted quest vote")
  ELSE
    LET questVotes == Put(game.questVotes, playerId, success)
        recorded == [game EXCEPT !.questVotes = questVotes, !.updatedAt = time]
        failCount == CountValues(questVotes, FALSE)
    IN IF KeyCount(questVotes) = Len(game.proposedTeam)
       THEN Accept([recorded EXCEPT
              !.questResults = Append(<<>>,
                 [success |-> failCount < QUEST_FAIL_REQUIREMENTS[game.currentQuest + 1],
                  failCount |-> failCount,
                  successCount |-> CountValues(questVotes, TRUE),
                  team |-> game.proposedTeam]),
              !.phase = QUEST_RESULT])
       ELSE Accept(recorded)

questVote(game, playerId, success, time) ==
  IF game.phase # QUEST THEN Reject(game, "Not in quest phase")
  ELSE IF ~Includes(game.proposedTeam, playerId)
    THEN Reject(game, "You are not on this quest")
  ELSE IF ~HasPlayer(game, playerId) THEN Reject(game, "TypeError")
  ELSE IF ~isEvil(FindPlayer(game, playerId).role) /\ ~success
    THEN Reject(game, "Good players must support the quest")
  ELSE IF HasKey(game.questVotes, playerId)
    THEN Reject(game, "Already submitted quest vote")
  ELSE
    LET questVotes == Put(game.questVotes, playerId, success)
        recorded == [game EXCEPT !.questVotes = questVotes, !.updatedAt = time]
        failCount == CountValues(questVotes, FALSE)
    IN IF KeyCount(questVotes) = Len(game.proposedTeam)
       THEN Accept([recorded EXCEPT
              !.questResults = Append(@,
                 [success |-> failCount < QUEST_FAIL_REQUIREMENTS[game.currentQuest + 1],
                  failCount |-> failCount,
                  successCount |-> CountValues(questVotes, TRUE),
                  team |-> game.proposedTeam]),
              !.phase = QUEST_RESULT])
       ELSE Accept(recorded)

\* game.questResults.filter(r => r.success === flag).length
CountResults(game, flag) ==
  Cardinality({i \in 1..Len(game.questResults) : game.questResults[i].success = flag})

\* continueFromQuest declaring Good the winner on entering the assassination
continueFromQuest_earlyWinner(game, playerId, time) ==
  IF game.phase # QUEST_RESULT THEN Reject(game, "Not in quest result phase")
  ELSE IF ~HasPlayer(game, playerId) \/ ~FindPlayer(game, playerId).isHost
    THEN Reject(game, "Only the host can continue")
  ELSE IF CountResults(game, TRUE) >= WinsNeeded
    THEN Accept([game EXCEPT !.phase = ASSASSINATION, !.winner = "good",
                             !.winReason = "Three quests succeeded",
                             !.updatedAt = time])
  ELSE IF CountResults(game, FALSE) >= WinsNeeded
    THEN Accept([game EXCEPT
           !.phase = GAME_OVER,
           !.winner = "evil",
           !.winReason = "Three quests failed",
           !.updatedAt = time])
  ELSE Accept([game EXCEPT
           !.currentQuest = @ + 1,
           !.leaderIndex = (@ + 1) % Len(game.players),
           !.proposedTeam = <<>>,
           !.votes = EmptyMap,
           !.questVotes = EmptyMap,
           !.phase = TEAM_SELECTION,
           !.updatedAt = time])

\* continueFromQuest leaving the leader where it is on the next quest
continueFromQuest_keepsLeader(game, playerId, time) ==
  IF game.phase # QUEST_RESULT THEN Reject(game, "Not in quest result phase")
  ELSE IF ~HasPlayer(game, playerId) \/ ~FindPlayer(game, playerId).isHost
    THEN Reject(game, "Only the host can continue")
  ELSE IF CountResults(game, TRUE) >= WinsNeeded
    THEN Accept([game EXCEPT !.phase = ASSASSINATION, !.updatedAt = time])
  ELSE IF CountResults(game, FALSE) >= WinsNeeded
    THEN Accept([game EXCEPT
           !.phase = GAME_OVER,
           !.winner = "evil",
           !.winReason = "Three quests failed",
           !.updatedAt = time])
  ELSE Accept([game EXCEPT
           !.currentQuest = @ + 1,
           !.proposedTeam = <<>>,
           !.votes = EmptyMap,
           !.questVotes = EmptyMap,
           !.phase = TEAM_SELECTION,
           !.updatedAt = time])

\* continueFromQuest opening the next selection with the quest votes still held
continueFromQuest_keepsVotes(game, playerId, time) ==
  IF game.phase # QUEST_RESULT THEN Reject(game, "Not in quest result phase")
  ELSE IF ~HasPlayer(game, playerId) \/ ~FindPlayer(game, playerId).isHost
    THEN Reject(game, "Only the host can continue")
  ELSE IF CountResults(game, TRUE) >= WinsNeeded
    THEN Accept([game EXCEPT !.phase = ASSASSINATION, !.updatedAt = time])
  ELSE IF CountResults(game, FALSE) >= WinsNeeded
    THEN Accept([game EXCEPT
           !.phase = GAME_OVER,
           !.winner = "evil",
           !.winReason = "Three quests failed",
           !.updatedAt = time])
  ELSE Accept([game EXCEPT
           !.currentQuest = @ + 1,
           !.leaderIndex = (@ + 1) % Len(game.players),
           !.proposedTeam = <<>>,
           !.votes = EmptyMap,
           !.phase = TEAM_SELECTION,
           !.updatedAt = time])

\* continueFromQuest opening the next selection without moving to the next quest
continueFromQuest_sameQuest(game, playerId, time) ==
  IF game.phase # QUEST_RESULT THEN Reject(game, "Not in quest result phase")
  ELSE IF ~HasPlayer(game, playerId) \/ ~FindPlayer(game, playerId).isHost
    THEN Reject(game, "Only the host can continue")
  ELSE IF CountResults(game, TRUE) >= WinsNeeded
    THEN Accept([game EXCEPT !.phase = ASSASSINATION, !.updatedAt = time])
  ELSE IF CountResults(game, FALSE) >= WinsNeeded
    THEN Accept([game EXCEPT
           !.phase = GAME_OVER,
           !.winner = "evil",
           !.winReason = "Three quests failed",
           !.updatedAt = time])
  ELSE Accept([game EXCEPT
           !.leaderIndex = (@ + 1) % Len(game.players),
           !.proposedTeam = <<>>,
           !.votes = EmptyMap,
           !.questVotes = EmptyMap,
           !.phase = TEAM_SELECTION,
           !.updatedAt = time])

continueFromQuest(game, playerId, time) ==
  IF game.phase # QUEST_RESULT THEN Reject(game, "Not in quest result phase")
  ELSE IF ~HasPlayer(game, playerId) \/ ~FindPlayer(game, playerId).isHost
    THEN Reject(game, "Only the host can continue")
  ELSE IF CountResults(game, TRUE) >= WinsNeeded
    THEN Accept([game EXCEPT !.phase = ASSASSINATION, !.updatedAt = time])
  ELSE IF CountResults(game, FALSE) >= WinsNeeded
    THEN Accept([game EXCEPT
           !.phase = GAME_OVER,
           !.winner = "evil",
           !.winReason = "Three quests failed",
           !.updatedAt = time])
  ELSE Accept([game EXCEPT
           !.currentQuest = @ + 1,
           !.leaderIndex = (@ + 1) % Len(game.players),
           !.proposedTeam = <<>>,
           !.votes = EmptyMap,
           !.questVotes = EmptyMap,
           !.phase = TEAM_SELECTION,
           !.updatedAt = time])

\* assassinate with its phase guard left out
assassinate_anyPhase(game, playerId, targetId, time) ==
  IF ~HasPlayer(game, playerId) \/ FindPlayer(game, playerId).role # SAUL
    THEN Reject(game, "Only Saul can assassinate")
  ELSE IF ~HasPlayer(game, targetId) THEN Reject(game, "Target not found")
  ELSE Accept([game EXCEPT
         !.assassinationTarget = targetId,
         !.winner = IF FindPlayer(game, targetId).role = SAMUEL THEN "evil" ELSE "good",
         !.winReason = IF FindPlayer(game, targetId).role = SAMUEL
                       THEN "Saul correctly identified and eliminated Samuel"
                       ELSE "Samuel survived the assassination attempt",
         !.phase = GAME_OVER,
         !.updatedAt = time])

\* assassinate counting any Good target as a hit
assassinate_anyGood(game, playerId, targetId, time) ==
  IF game.phase # ASSASSINATION THEN Reject(game, "Not in assassination phase")
  ELSE IF ~HasPlayer(game, playerId) \/ FindPlayer(game, playerId).role # SAUL
    THEN Reject(game, "Only Saul can assassinate")
  ELSE IF ~HasPlayer(game, targetId) THEN Reject(game, "Target not found")
  ELSE Accept([game EXCEPT
         !.assassinationTarget = targetId,
         !.winner = IF ~isEvil(FindPlayer(game, targetId).role) THEN "evil" ELSE "good",
         !.winReason = IF ~isEvil(FindPlayer(game, targetId).role)
                       THEN "Saul correctly identified and eliminated Samuel"
                       ELSE "Samuel survived the assassination attempt",
         !.phase = GAME_OVER,
         !.updatedAt = time])

\* assassinate giving Evil the game whoever the target is
assassinate_alwaysHits(game, playerId, targetId, time) ==
  IF game.phase # ASSASSINATION THEN Reject(game, "Not in assassination phase")
  ELSE IF ~HasPlayer(game, playerId) \/ FindPlayer(game, playerId).role # SAUL
    THEN Reject(game, "Only Saul can assassinate")
  ELSE IF ~HasPlayer(game, targetId) THEN Reject(game, "Target not found")
  ELSE Accept([game EXCEPT
         !.assassinationTarget = targetId,
         !.winner = "evil",
         !.winReason = IF FindPlayer(game, targetId).role = SAMUEL
                       THEN "Saul correctly identified and eliminated Samuel"
                       ELSE "Samuel survived the assassination attempt",
         !.phase = GAME_OVER,
         !.updatedAt = time])

assassinate(game, playerId, targetId, time) ==
  IF game.phase # ASSASSINATION THEN Reject(game, "Not in assassination phase")
  ELSE IF ~HasPlayer(game, playerId) \/ FindPlayer(game, playerId).role # SAUL
    THEN Reject(game, "Only Saul can assassinate")
  ELSE IF ~HasPlayer(game, targetId) THEN Reject(game, "Target not found")
  ELSE Accept([game EXCEPT
         !.assassinationTarget = targetId,
         !.winner = IF FindPlayer(game, targetId).role = SAMUEL THEN "evil" ELSE "good",
         !.winReason = IF FindPlayer(game, targetId).role = SAMUEL
                       THEN "Saul correctly identified and eliminated Samuel"
                       ELSE "Samuel survived the assassination attempt",
         !.phase = GAME_OVER,
         !.updatedAt = time])

(* ------------------------------------------------------------------ *)
(* /api/vote-results                                                    *)
(* ------------------------------------------------------------------ *)
\* the answer that is refused only before the first vote of a round is cast
voteResults_afterFirstVote(game) ==
  IF game.phase = TEAM_VOTE /\ KeyCount(game.votes) < 1
  THEN [error |-> "Voting is not complete", votes |-> EmptyMap, players |-> <<>>]
  ELSE [error |-> NoError,
        votes |-> game.votes,
        players |-> [i \in 1..Len(game.players) |->
                       [id |-> game.players[i].id, name |-> game.players[i].name]]]

\* the answer of /api/vote-results: an error, or the votes map and the roster
voteResults(game) ==
  IF game.phase = TEAM_VOTE /\ KeyCount(game.votes) < Len(game.players)
  THEN [error |-> "Voting is not complete", votes |-> EmptyMap, players |-> <<>>]
  ELSE [error |-> NoError,
        votes |-> game.votes,
        players |-> [i \in 1..Len(game.players) |->
                       [id |-> game.players[i].id, name |-> game.players[i].name]]]

(* ------------------------------------------------------------------ *)
(* Player knowledge                                                     *)
(* ------------------------------------------------------------------ *)
\* getPlayerKnowledge returning null: no such player, or no role dealt yet
NullKnowledge == [role |-> NullRole, isEvil |-> FALSE, sees |-> <<>>]

\* the knowledge in which Saul, Phinehas and the Sheep are shown Doeg as well
getPlayerKnowledge_alliesSeeDoeg(game, playerId) ==
  IF ~HasPlayer(game, playerId) THEN NullKnowledge
  ELSE IF FindPlayer(game, playerId).role = NullRole THEN NullKnowledge
  ELSE
    LET player == FindPlayer(game, playerId)
        Seen(keep(_), label) ==
          LET kept == SelectSeq(game.players, keep)
          IN [i \in 1..Len(kept) |->
                [id |-> kept[i].id, name |-> kept[i].name, label |-> label]]
    IN [role |-> player.role,
        isEvil |-> isEvil(player.role),
        sees |->
          CASE player.role = SAMUEL ->
                 Seen(LAMBDA p : isEvil(p.role) /\ p.role # SAUL, "Evil")
            [] player.role = DAVID ->
                 Seen(LAMBDA p : p.role = SAMUEL \/ p.role = PHINEHAS,
                      "Samuel or Phinehas")
            [] player.role \in {SAUL, PHINEHAS, SHEEP} ->
                 Seen(LAMBDA p : p.id # playerId /\ isEvil(p.role),
                      "Evil Ally")
            [] player.role = DOEG -> <<>>
            [] player.role = MIGHTY_MAN -> <<>>
            [] OTHER -> <<>>]

\* the knowledge in which Samuel is shown Saul as well
getPlayerKnowledge_samuelSeesSaul(game, playerId) ==
  IF ~HasPlayer(game, playerId) THEN NullKnowledge
  ELSE IF FindPlayer(game, playerId).role = NullRole THEN NullKnowledge
  ELSE
    LET player == FindPlayer(game, playerId)
        Seen(keep(_), label) ==
          LET kept == SelectSeq(game.players, keep)
          IN [i \in 1..Len(kept) |->
                [id |-> kept[i].id, name |-> kept[i].name, label |-> label]]
    IN [role |-> player.role,
        isEvil |-> isEvil(player.role),
        sees |->
          CASE player.role = SAMUEL ->
                 Seen(LAMBDA p : isEvil(p.role), "Evil")
            [] player.role = DAVID ->
                 Seen(LAMBDA p : p.role = SAMUEL \/ p.role = PHINEHAS,
                      "Samuel or Phinehas")
            [] player.role \in {SAUL, PHINEHAS, SHEEP} ->
                 Seen(LAMBDA p : p.id # playerId /\ isEvil(p.role) /\ p.role # DOEG,
                      "Evil Ally")
            [] player.role = DOEG -> <<>>
            [] player.role = MIGHTY_MAN -> <<>>
            [] OTHER -> <<>>]

getPlayerKnowledge(game, playerId) ==
  IF ~HasPlayer(game, playerId) THEN NullKnowledge
  ELSE IF FindPlayer(game, playerId).role = NullRole THEN NullKnowledge
  ELSE
    LET player == FindPlayer(game, playerId)
        Seen(keep(_), label) ==
          LET kept == SelectSeq(game.players, keep)
          IN [i \in 1..Len(kept) |->
                [id |-> kept[i].id, name |-> kept[i].name, label |-> label]]
    IN [role |-> player.role,
        isEvil |-> isEvil(player.role),
        sees |->
          CASE player.role = SAMUEL ->
                 Seen(LAMBDA p : isEvil(p.role) /\ p.role # SAUL, "Evil")
            [] player.role = DAVID ->
                 Seen(LAMBDA p : p.role = SAMUEL \/ p.role = PHINEHAS,
                      "Samuel or Phinehas")
            [] player.role \in {SAUL, PHINEHAS, SHEEP} ->
                 Seen(LAMBDA p : p.id # playerId /\ isEvil(p.role) /\ p.role # DOEG,
                      "Evil Ally")
            [] player.role = DOEG -> <<>>
            [] player.role = MIGHTY_MAN -> <<>>
            [] OTHER -> <<>>]

(* ------------------------------------------------------------------ *)
(* Public view                                                          *)
(* ------------------------------------------------------------------ *)
Undefined == "undefined"

\* Object spread / property assignment: the fields of extra added to base
Merge(base, extra) == extra @@ base

\* the fields added in one phase, or none
When(condition, fields) == IF condition THEN fields ELSE <<>>

\* a public view that shows every role in every phase
getPublicGameState_roles(g, playerId) ==
  [code |-> g.code,
   phase |-> g.phase,
   playerCount |-> Len(g.players),
   players |-> [i \in 1..Len(g.players) |->
      [id |-> g.players[i].id,
       name |-> g.players[i].name,
       isHost |-> g.players[i].isHost,
       connected |-> g.players[i].connected,
       role |-> g.players[i].role]],
   currentQuest |-> g.currentQuest,
   questResults |-> g.questResults,
   proposedTeam |-> g.proposedTeam,
   rejectCount |-> g.rejectCount,
   winner |-> g.winner,
   winReason |-> g.winReason]

\* a public view that shows the last quest's votes once the game is over
getPublicGameState_questVotes(g, playerId) ==
  LET isInGame == HasPlayer(g, playerId)
      publicState ==
        [code |-> g.code,
         phase |-> g.phase,
         playerCount |-> Len(g.players),
         players |-> [i \in 1..Len(g.players) |->
            [id |-> g.players[i].id,
             name |-> g.players[i].name,
             isHost |-> g.players[i].isHost,
             connected |-> g.players[i].connected,
             role |-> IF g.phase = GAME_OVER THEN g.players[i].role ELSE Undefined]],
         currentQuest |-> g.currentQuest,
         questResults |-> g.questResults,
         questSizes |-> QUEST_SIZES,
         questFailRequirements |-> QUEST_FAIL_REQUIREMENTS,
         leaderIndex |-> g.leaderIndex,
         leaderName |-> IF g.leaderIndex + 1 \in 1..Len(g.players)
                        THEN g.players[g.leaderIndex + 1].name
                        ELSE Name(0, FALSE),
         proposedTeam |-> g.proposedTeam,
         rejectCount |-> g.rejectCount,
         winner |-> g.winner,
         winReason |-> g.winReason,
         questVotes |-> IF g.phase = GAME_OVER THEN g.questVotes ELSE EmptyMap]
  IN IF ~isInGame THEN publicState
     ELSE
       LET player == FindPlayer(g, playerId)
           mine ==
             [myId |-> playerId,
              myName |-> player.name,
              isHost |-> player.isHost,
              isLeader |-> LeaderId(g) = playerId,
              isOnTeam |-> Includes(g.proposedTeam, playerId)]
           teamVote ==
             When(g.phase = TEAM_VOTE,
                  [votedPlayers |-> DOMAIN g.votes,
                   hasVoted |-> HasKey(g.votes, playerId)])
           voteResult ==
             When(g.phase = VOTE_RESULT,
                  [lastVoteResult |-> g.lastVoteResult,
                   voteDetails |-> [i \in 1..Len(g.players) |->
                      [id |-> g.players[i].id,
                       name |-> g.players[i].name,
                       approved |->
                         IF HasKey(g.lastVoteResult.votes, g.players[i].id)
                         THEN IF g.lastVoteResult.votes[g.players[i].id]
                              THEN "true" ELSE "false"
                         ELSE Undefined]]])
           quest ==
             When(g.phase = QUEST,
                  [questVotedPlayers |-> DOMAIN g.questVotes,
                   hasQuestVoted |-> HasKey(g.questVotes, playerId)])
           assassination ==
             When(g.phase = ASSASSINATION,
                  [isSaul |-> player.role = SAUL,
                   assassinationReady |-> g.assassinationTarget # NullTarget])
           questResult ==
             When(g.phase = QUEST_RESULT,
                  [lastQuestResult |-> g.questResults[Len(g.questResults)]])
       IN Merge(Merge(Merge(Merge(Merge(Merge(publicState, mine), teamVote),
                voteResult), quest), assassination), questResult)

getPublicGameState(g, playerId) ==
  LET isInGame == HasPlayer(g, playerId)
      publicState ==
        [code |-> g.code,
         phase |-> g.phase,
         playerCount |-> Len(g.players),
         players |-> [i \in 1..Len(g.players) |->
            [id |-> g.players[i].id,
             name |-> g.players[i].name,
             isHost |-> g.players[i].isHost,
             connected |-> g.players[i].connected,
             role |-> IF g.phase = GAME_OVER THEN g.players[i].role ELSE Undefined]],
         currentQuest |-> g.currentQuest,
         questResults |-> g.questResults,
         questSizes |-> QUEST_SIZES,
         questFailRequirements |-> QUEST_FAIL_REQUIREMENTS,
         leaderIndex |-> g.leaderIndex,
         leaderName |-> IF g.leaderIndex + 1 \in 1..Len(g.players)
                        THEN g.players[g.leaderIndex + 1].name
                        ELSE Name(0, FALSE),
         proposedTeam |-> g.proposedTeam,
         rejectCount |-> g.rejectCount,
         winner |-> g.winner,
         winReason |-> g.winReason]
  IN IF ~isInGame THEN publicState
     ELSE
       LET player == FindPlayer(g, playerId)
           mine ==
             [myId |-> playerId,
              myName |-> player.name,
              isHost |-> player.isHost,
              isLeader |-> LeaderId(g) = playerId,
              isOnTeam |-> Includes(g.proposedTeam, playerId)]
           teamVote ==
             When(g.phase = TEAM_VOTE,
                  [votedPlayers |-> DOMAIN g.votes,
                   hasVoted |-> HasKey(g.votes, playerId)])
           voteResult ==
             When(g.phase = VOTE_RESULT,
                  [lastVoteResult |-> g.lastVoteResult,
                   voteDetails |-> [i \in 1..Len(g.players) |->
                      [id |-> g.players[i].id,
                       name |-> g.players[i].name,
                       approved |->
                         IF HasKey(g.lastVoteResult.votes, g.players[i].id)
                         THEN IF g.lastVoteResult.votes[g.players[i].id]
                              THEN "true" ELSE "false"
                         ELSE Undefined]]])
           quest ==
             When(g.phase = QUEST,
                  [questVotedPlayers |-> DOMAIN g.questVotes,
                   hasQuestVoted |-> HasKey(g.questVotes, playerId)])
           assassination ==
             When(g.phase = ASSASSINATION,
                  [isSaul |-> player.role = SAUL,
                   assassinationReady |-> g.assassinationTarget # NullTarget])
           questResult ==
             When(g.phase = QUEST_RESULT,
                  [lastQuestResult |-> g.questResults[Len(g.questResults)]])
       IN Merge(Merge(Merge(Merge(Merge(Merge(publicState, mine), teamVote),
                voteResult), quest), assassination), questResult)

(* ------------------------------------------------------------------ *)
(* State                                                                *)
(* ------------------------------------------------------------------ *)
VARIABLES
  kv,      \* the record stored under game:CODE in env.GAMES
  game,    \* the object the last request's action was applied to, after the call
  last,    \* the last request: its endpoint, its body (playerId; approve or
           \* success; targetId) and whether it was answered with success
  now,     \* Date.now()
  streak,  \* history: proposals voted down in a row since the last approved one
  gameState,    \* WebRTC host: this.gameState
  connections,  \* WebRTC host: the peers whose connection.connected is true
  delivered,    \* WebRTC host: the last 'state' message sent to each peer
  knowledge,    \* the knowledge the last /api/knowledge request was answered
                \* with; null before the first one and when it was refused
  handlers,     \* concurrent requests of the key-value server, each idle or
                \* holding the record it loaded
  acked,        \* history: the voters answered with success in this round
  gameLocks,    \* dev-server.js: the codes gameLocks holds an entry for
  dealt,        \* one call of assignRoles: its playerCount, the seed of the
                \* random source, and the array it returned (empty before)
  callers       \* dev-server.js: each caller of withGameLock: where it stands,
                \* and how its last callback finished

serverVars == <<kv, game, last, now, streak, knowledge, dealt>>
hostVars == <<gameState, connections, delivered>>
raceVars == <<handlers, acked, gameLocks, callers>>
vars ==
  <<kv, game, last, now, streak, knowledge, dealt, gameState, connections,
    delivered, handlers, acked, gameLocks, callers>>

HostName == Name(1, FALSE)

\* a request and its answer; a body field the endpoint does not read is given
\* as true or as no id
Asked(op, playerId, flag, targetId, ok) ==
  [op |-> op, by |-> playerId, flag |-> flag, target |-> targetId, ok |-> ok]

Handlers == 1..MaxHandlers
Idle == [pc |-> "idle"]

\* a server that has answered /api/create and nothing else
ServerInit ==
  /\ now = 0
  /\ kv = createGame(HostName, 0)
  /\ game = createGame(HostName, 0)
  /\ last = Asked("create", NullTarget, TRUE, NullTarget, TRUE)
  /\ streak = 0
  /\ knowledge = NullKnowledge

\* a host after WebRTCTransport.createGame, before any peer connected
HostInit ==
  /\ gameState = createGame(HostName, 0)
  /\ connections = {}
  /\ delivered = <<>>

Callers == 1..MaxCallers

RaceInit ==
  /\ handlers = [h \in Handlers |-> Idle]
  /\ acked = {}
  /\ gameLocks = {}
  /\ callers = [c \in Callers |-> [pc |-> "idle", outcome |-> "none"]]

\* no call of assignRoles on its own
NoDeal == [playerCount |-> 0, seed |-> 0, roles |-> <<>>]
DealInit == dealt = NoDeal

Init == ServerInit /\ HostInit /\ RaceInit /\ DealInit

(* ------------------------------------------------------------------ *)
(* Inputs of the requests                                               *)
(* ------------------------------------------------------------------ *)
RosterSizes == MinPlayers + ExtraPlayers

PlayerIds(g) == {g.players[i].id : i \in 1..Len(g.players)}

\* the phases in which each request is tried: its own, the ones that follow
\* it (a replay), and game_over
RequestPhases(op) ==
  CASE op = "join" -> {LOBBY, TEAM_SELECTION, GAME_OVER}
    [] op = "rejoin" -> {LOBBY, QUEST, GAME_OVER}
    [] op = "start" -> {LOBBY, TEAM_SELECTION, GAME_OVER}
    [] op = "propose" -> {TEAM_SELECTION, TEAM_VOTE, GAME_OVER}
    [] op = "vote" -> {TEAM_VOTE, VOTE_RESULT, GAME_OVER}
    [] op = "continue_vote" -> {VOTE_RESULT, QUEST, TEAM_SELECTION, GAME_OVER}
    [] op = "quest" -> {QUEST, QUEST_RESULT, GAME_OVER}
    [] op = "continue" -> {QUEST_RESULT, TEAM_SELECTION, ASSASSINATION, GAME_OVER}
    [] op = "assassinate" -> {ASSASSINATION, QUEST_RESULT, GAME_OVER}
    [] op = "state" -> {LOBBY, TEAM_VOTE, GAME_OVER}

\* the phase in which each action's phase guard passes (rejoin and the state
\* poll have no such guard)
OwnPhase(op) ==
  CASE op = "join" -> LOBBY
    [] op = "start" -> LOBBY
    [] op = "propose" -> TEAM_SELECTION
    [] op = "vote" -> TEAM_VOTE
    [] op = "continue_vote" -> VOTE_RESULT
    [] op = "quest" -> QUEST
    [] op = "continue" -> QUEST_RESULT
    [] op = "assassinate" -> ASSASSINATION
    [] OTHER -> "any"

\* requests that are out of place (wrong phase, wrong caller, malformed) are
\* sent during the first round of the game, during the assassination and
\* after the end
Probing(g) ==
  \/ g.phase \in {ASSASSINATION, GAME_OVER}
  \/ g.currentQuest = 0 /\ g.rejectCount = 0

\* the inputs an action must refuse in its own phase, sent while probing
Wrong(g, op, inputs) ==
  IF g.phase = OwnPhase(op) /\ Probing(g) THEN inputs ELSE {}

\* the inputs that only matter where the action's phase guard passes
Right(g, op, inputs) == IF g.phase = OwnPhase(op) THEN inputs ELSE {}

\* no guard of the engine reads a timestamp, so once the clock has moved only
\* the two requests that write timestamps are tried
Tried(op, g) ==
  /\ g.phase \in RequestPhases(op)
  /\ g.phase = OwnPhase(op) \/ Probing(g)
  /\ now = 0 \/ op \in {"rejoin", "state"}

\* the name of the next newcomer, and the host's name in both spellings
JoinNames(g) ==
  {Name(Len(g.players) + 1, FALSE)}
    \cup Wrong(g, "join", {Name(1, FALSE), Name(1, TRUE), Name(Len(g.players), FALSE)})

Seeds == 0..(MaxSeed - 1)

\* the random source at a start
StartSeeds(g) == {0} \cup Right(g, "start", Seeds)

\* the id at roster position i (1-based, wrapping)
IdAt(g, i) == g.players[((i - 1) % Len(g.players)) + 1].id

\* size consecutive roster members from position from (1-based, wrapping)
Window(g, from, size) == [i \in 1..size |-> IdAt(g, from + i - 1)]

\* proposals: the members from the leader on; the same with the last seat given
\* to the leader a second time (first proposal of a quest only); one member
\* short; one with a stranger
TeamInputs(g) ==
  LET size == QUEST_SIZES[g.currentQuest + 1]
      w == Window(g, g.leaderIndex + 1, size)
  IN {w} \cup Wrong(g, "propose",
                    {SubSeq(w, 1, size - 1), [w EXCEPT ![size] = StrangerId]})
       \cup (IF g.rejectCount = 0
             THEN Right(g, "propose", {[w EXCEPT ![size] = w[1]]}) ELSE {})

\* roster members missing from map that stand before position idx
MissingBefore(g, map, idx) ==
  Cardinality({i \in 1..(idx - 1) : ~HasKey(map, g.players[i].id)})

\* whether this round's proposal may still be approved
MayApprove(g) == g.rejectCount = 0 \/ g.currentQuest + g.rejectCount <= MaxRetry

\* the team votes explored: the first half of the roster approves, the member
\* after them votes either way, the rest reject
VoteValues(g, playerId) ==
  IF ~HasPlayer(g, playerId) THEN {TRUE}
  ELSE LET idx == FindIndex(g, playerId)
           half == Len(g.players) \div 2
       IN IF idx <= half THEN {TRUE}
          ELSE IF idx = half + 1
            THEN (IF MayApprove(g) THEN BOOLEAN ELSE {FALSE})
          ELSE {FALSE}

\* the callers of vote: everybody in team_vote, the host elsewhere
Voters(g) == {g.hostId} \cup Right(g, "vote", PlayerIds(g) \cup {StrangerId})

VoteInScope(g, playerId) ==
  IF ~HasPlayer(g, playerId) \/ HasKey(g.votes, playerId) THEN Probing(g)
  ELSE MissingBefore(g, g.votes, FindIndex(g, playerId)) <= MaxSkip

\* the quest votes explored: Saul votes either way, the other Evil members only
\* on a quest that needs more than one fail; Good members try to fail while
\* probing
QuestVoteValues(g, playerId) ==
  IF ~HasPlayer(g, playerId) THEN {TRUE}
  ELSE LET role == FindPlayer(g, playerId).role
       IN IF role = SAUL THEN BOOLEAN
          ELSE IF ~isEvil(role) THEN {TRUE} \cup Wrong(g, "quest", {FALSE})
          ELSE IF QUEST_FAIL_REQUIREMENTS[g.currentQuest + 1] > 1 THEN BOOLEAN
          ELSE {TRUE}

\* the callers of questVote: everybody in quest, the host elsewhere
Questers(g) == {g.hostId} \cup Right(g, "quest", PlayerIds(g) \cup {StrangerId})

QuestVoteInScope(g, playerId) ==
  IF \/ ~HasPlayer(g, playerId)
     \/ HasKey(g.questVotes, playerId)
     \/ ~Includes(g.proposedTeam, playerId) THEN Probing(g)
  ELSE Cardinality({i \in 1..(FindIndex(g, playerId) - 1) :
         Includes(g.proposedTeam, g.players[i].id)
         /\ ~HasKey(g.questVotes, g.players[i].id)}) <= MaxSkip

\* the player holding role, or the stranger when nobody does
IdOfRole(g, role) ==
  IF \E i \in 1..Len(g.players) : g.players[i].role = role
  THEN g.players[CHOOSE i \in 1..Len(g.players) : g.players[i].role = role].id
  ELSE StrangerId

\* the callers and the targets of assassinate
Assassins(g) == {IdOfRole(g, SAUL)} \cup Wrong(g, "assassinate", {IdOfRole(g, PHINEHAS)})
Targets(g) ==
  {IdOfRole(g, SAMUEL)}
    \cup Right(g, "assassinate", {IdOfRole(g, DAVID), IdOfRole(g, SAUL), StrangerId})

(* ------------------------------------------------------------------ *)
(* Request handlers of the key-value server, one request at a time      *)
(* ------------------------------------------------------------------ *)
\* JSON.parse(await GAMES.get(..)); the action; GAMES.put(.., JSON.stringify(game))
\* unless the action threw
Handle(op, playerId, flag, targetId, result) ==
  /\ game' = result.game
  /\ kv' = IF result.error = NoError THEN result.game ELSE kv
  /\ last' = Asked(op, playerId, flag, targetId, result.error = NoError)
  /\ streak' = IF op = "vote" /\ result.error = NoError /\ result.game.phase = VOTE_RESULT
               THEN (IF result.game.lastVoteResult.approved THEN 0 ELSE streak + 1)
               ELSE streak
  /\ UNCHANGED <<now, knowledge, dealt, hostVars, raceVars>>

JoinReq ==
  /\ Tried("join", kv)
  /\ \E name \in JoinNames(kv) :
       /\ Len(kv.players) < RosterSizes \/ kv.phase # LOBBY \/ name.base = 1
       /\ Handle("join", NullTarget, TRUE, NullTarget, join(kv, name, now))

RejoinReq ==
  /\ Tried("rejoin", kv)
  /\ \E playerId \in {kv.hostId, StrangerId} :
       Handle("rejoin", playerId, TRUE, NullTarget, rejoin(kv, playerId, now))

\* /api/state: refreshes the caller's liveness when the caller is in the roster
\* and stores the record, then answers with the caller's public view
touch(g, playerId, time) ==
  IF HasPlayer(g, playerId)
  THEN [g EXCEPT !.players[FindIndex(g, playerId)].lastSeen = time,
                 !.players[FindIndex(g, playerId)].connected = TRUE]
  ELSE g

StateReq ==
  /\ Tried("state", kv)
  /\ \E playerId \in {kv.hostId, StrangerId} :
       Handle("state", playerId, TRUE, NullTarget, Accept(touch(kv, playerId, now)))

StartReq ==
  /\ Tried("start", kv)
  /\ \E playerId \in {kv.hostId} \cup Wrong(kv, "start", {IdAt(kv, 2)}),
        seed \in StartSeeds(kv) :
       Handle("start", playerId, TRUE, NullTarget, start(kv, playerId, seed, now))

ProposeReq ==
  /\ Tried("propose", kv)
  /\ \E playerId \in {LeaderId(kv)} \cup Wrong(kv, "propose", {IdAt(kv, kv.leaderIndex + 2)}),
        team \in TeamInputs(kv) :
       Handle("propose", playerId, TRUE, NullTarget, propose(kv, playerId, team, now))

VoteReq ==
  /\ Tried("vote", kv)
  /\ \E playerId \in Voters(kv) :
       \E approve \in VoteValues(kv, playerId) :
         /\ VoteInScope(kv, playerId)
         /\ Handle("vote", playerId, approve, NullTarget,
                   vote(kv, playerId, approve, now))

ContinueVoteReq ==
  /\ Tried("continue_vote", kv)
  /\ \E playerId \in {kv.hostId} \cup Wrong(kv, "continue_vote", {IdAt(kv, 2)}) :
       Handle("continue_vote", playerId, TRUE, NullTarget,
              continueFromVote(kv, playerId, now))

QuestReq ==
  /\ Tried("quest", kv)
  /\ \E playerId \in Questers(kv) :
       \E success \in QuestVoteValues(kv, playerId) :
         /\ QuestVoteInScope(kv, playerId)
         /\ Handle("quest", playerId, success, NullTarget,
                   questVote(kv, playerId, success, now))

ContinueReq ==
  /\ Tried("continue", kv)
  /\ \E playerId \in {kv.hostId} \cup Wrong(kv, "continue", {IdAt(kv, 2)}) :
       Handle("continue", playerId, TRUE, NullTarget,
              continueFromQuest(kv, playerId, now))

AssassinateReq ==
  /\ Tried("assassinate", kv)
  /\ \E playerId \in Assassins(kv), targetId \in Targets(kv) :
       Handle("assassinate", playerId, TRUE, targetId,
              assassinate(kv, playerId, targetId, now))

\* Date.now() moves on between two requests; timestamps decide nothing in the
\* engine, so the clock is followed only where they are all a request can
\* change: once the game is over
Tick ==
  /\ kv.phase = GAME_OVER
  /\ now < MaxClock
  /\ now' = now + 1
  /\ UNCHANGED <<kv, game, last, streak, knowledge, dealt, hostVars, raceVars>>

Next ==
  \/ Tick
  \/ JoinReq
  \/ RejoinReq
  \/ StateReq
  \/ StartReq
  \/ ProposeReq
  \/ VoteReq
  \/ ContinueVoteReq
  \/ QuestReq
  \/ ContinueReq
  \/ AssassinateReq

Spec == Init /\ [][Next]_vars

(* ------------------------------------------------------------------ *)
(* The WebRTC host: this.gameState and the messages it sends            *)
(* ------------------------------------------------------------------ *)
\* the id a joining peer makes up for itself in joinGame
PeerId(k) == 200 + k
\* the id the same peer makes up when it goes through joinGame a second time
SecondId(k) == 300 + k

\* the peers that ask for a connection: one per seat, and one that comes late
Peers == 2..(RosterSizes + 1)
\* the peers whose data channel closes and opens again
Droppers == {PeerId(2)}

\* this.gameState = null: a host that came back without its record
NullGame == [createGame(HostName, 0) EXCEPT !.phase = "null", !.players = <<>>]

\* dataChannel.onopen: without a record, reading this.gameState.players throws
\* after connection.connected was set. Otherwise a roster entry with the peer's name (the host's own
\* excepted) is taken over under the peer's id; otherwise the peer joins and
\* its new entry gets the peer's id. A throw of join leaves the handler.
onopen(g, playerId, name, time) ==
  IF g = NullGame THEN Reject(g, "TypeError") ELSE
  LET matches == {i \in 1..Len(g.players) :
                    /\ toLowerCase(g.players[i].name) = toLowerCase(name)
                    /\ g.players[i].id # generatePlayerId(1)}
  IN IF matches # {}
     THEN LET i == CHOOSE m \in matches : \A o \in matches : m <= o
          IN Accept([g EXCEPT !.players[i].id = playerId,
                              !.players[i].connected = TRUE,
                              !.players[i].lastSeen = time])
     ELSE LET joined == join(g, name, time)
          IN IF joined.error # NoError THEN joined
             ELSE Accept([joined.game EXCEPT
                    !.players[FindIndex(joined.game,
                        generatePlayerId(Len(g.players) + 1))].id = playerId])

\* broadcastState / sendToPlayer: the message each of the peers in to gets
Send(g, to, time) ==
  [c \in (DOMAIN delivered) \cup to |->
     IF c \in to
     THEN [type |-> "state", state |-> g, timestamp |-> time, yourPlayerId |-> c]
     ELSE delivered[c]]

\* a peer asks for a connection with the id it made up in joinGame; a peer that
\* lost its channel comes back with that id (rejoinGame) or, during a team
\* vote, through joinGame with its name and a new id
HostOpen ==
  /\ \E k \in Peers : \E playerId \in {PeerId(k), SecondId(k)} :
       /\ PeerId(k) \notin connections /\ playerId \notin connections
       /\ IF playerId = PeerId(k)
          THEN \/ gameState.phase = LOBBY /\ k = Len(gameState.players) + 1 /\ k <= RosterSizes
               \/ PeerId(k) \in Droppers /\ HasPlayer(gameState, PeerId(k))
               \/ gameState.phase = TEAM_SELECTION /\ k = RosterSizes + 1
               \/ gameState = NullGame /\ PeerId(k) \in Droppers
          ELSE /\ PeerId(k) \in Droppers /\ HasPlayer(gameState, PeerId(k))
               /\ gameState.phase = TEAM_VOTE
       /\ LET opened == onopen(gameState, playerId, Name(k, FALSE), now)
          IN /\ connections' = connections \cup {playerId}
             /\ gameState' = opened.game
             /\ delivered' = IF opened.error = NoError
                             THEN Send(opened.game, connections', now)
                             ELSE delivered
  /\ UNCHANGED <<serverVars, raceVars>>

\* dataChannel.onclose
HostClose ==
  /\ \E playerId \in connections \cap Droppers :
       /\ gameState.phase \in {LOBBY, TEAM_VOTE}
       /\ connections' = connections \ {playerId}
  /\ UNCHANGED <<gameState, delivered, serverVars, raceVars>>

\* hostHandleMessage, case 'request-state'
HostRequestState ==
  /\ \E fromPlayerId \in connections :
       delivered' = Send(gameState, {fromPlayerId}, now)
  /\ UNCHANGED <<gameState, connections, serverVars, raceVars>>

\* the 'action' messages explored in record g, each with the outcome of the
\* GameActions call hostHandleAction makes for it
HostCalls(g, time) ==
  (IF Tried("start", g)
   THEN {[action |-> "start", from |-> f, result |-> start(g, f, seed, time)] :
           f \in {g.hostId} \cup Wrong(g, "start", {IdAt(g, 2)}), seed \in StartSeeds(g)}
   ELSE {})
  \cup
  (IF Tried("propose", g)
   THEN {[action |-> "propose", from |-> f, result |-> propose(g, f, team, time)] :
           f \in {LeaderId(g)} \cup Wrong(g, "propose", {IdAt(g, g.leaderIndex + 2)}), team \in TeamInputs(g)}
   ELSE {})
  \cup
  (IF Tried("vote", g)
   THEN UNION {{[action |-> "vote", from |-> f, result |-> vote(g, f, approve, time)] :
                  approve \in VoteValues(g, f)} :
                f \in {q \in Voters(g) : VoteInScope(g, q)}}
   ELSE {})
  \cup
  (IF Tried("continue_vote", g)
   THEN {[action |-> "continueFromVote", from |-> f,
          result |-> continueFromVote(g, f, time)] :
           f \in {g.hostId} \cup Wrong(g, "continue_vote", {IdAt(g, 2)})}
   ELSE {})
  \cup
  (IF Tried("quest", g)
   THEN UNION {{[action |-> "questVote", from |-> f,
                 result |-> questVote(g, f, success, time)] :
                  success \in QuestVoteValues(g, f)} :
                f \in {q \in Questers(g) : QuestVoteInScope(g, q)}}
   ELSE {})
  \cup
  (IF Tried("continue", g)
   THEN {[action |-> "continueFromQuest", from |-> f,
          result |-> continueFromQuest(g, f, time)] :
           f \in {g.hostId} \cup Wrong(g, "continue", {IdAt(g, 2)})}
   ELSE {})
  \cup
  (IF Tried("assassinate", g)
   THEN {[action |-> "assassinate", from |-> f,
          result |-> assassinate(g, f, targetId, time)] :
           f \in Assassins(g), targetId \in Targets(g)}
   ELSE {})

\* hostHandleAction: the call is made on this.gameState in place; after a
\* return the state is broadcast, after a throw only an error goes back
HostAction ==
  /\ gameState.currentQuest <= MaxHostQuest
  /\ \E call \in HostCalls(gameState, now) :
       /\ call.from \in connections \cup {generatePlayerId(1)}
       /\ gameState' = call.result.game
       /\ delivered' = IF call.result.error = NoError
                       THEN Send(call.result.game, connections, now)
                       ELSE delivered
  /\ UNCHANGED <<connections, serverVars, raceVars>>

\* rejoinGame as the host, hostRejoin: a new transport without a record and
\* without connections; followed right after the start
HostRejoin ==
  /\ gameState.phase = TEAM_SELECTION
  /\ gameState.currentQuest = 0 /\ gameState.rejectCount = 0
  /\ gameState.proposedTeam = <<>>
  /\ gameState' = NullGame
  /\ connections' = {}
  /\ UNCHANGED <<delivered, serverVars, raceVars>>

\* the records a peer puts in a 'state-recovery' message: the one it was last
\* sent, and the same with the game ended in Evil's favour
RecoveryStates(playerId) ==
  IF playerId \notin DOMAIN delivered \/ delivered[playerId].state = NullGame THEN {}
  ELSE {delivered[playerId].state,
        [delivered[playerId].state EXCEPT
           !.phase = GAME_OVER, !.winner = "evil", !.winReason = "Three quests failed"]}

\* hostHandleMessage, case 'state-recovery': a host without a record takes
\* message.state as its own, puts its id on the isHost player and broadcasts
recover(state, playerId) ==
  LET hosts == {i \in 1..Len(state.players) : state.players[i].isHost}
      withHost == IF hosts = {} THEN state
                  ELSE [state EXCEPT
                          !["players"][CHOOSE i \in hosts : \A j \in hosts : i <= j].id = playerId]
  IN [withHost EXCEPT !.hostId = playerId]

HostRecovery ==
  /\ \E fromPlayerId \in connections \cap Droppers :
       \E state \in RecoveryStates(fromPlayerId) :
         IF gameState = NullGame
         THEN /\ gameState' = recover(state, generatePlayerId(1))
              /\ delivered' = Send(gameState', connections, now)
         ELSE UNCHANGED <<gameState, delivered>>
  /\ UNCHANGED <<connections, serverVars, raceVars>>

NextHost ==
  \/ HostOpen
  \/ HostClose
  \/ HostRequestState
  \/ HostAction
  \/ HostRejoin
  \/ HostRecovery

SpecHost == Init /\ [][NextHost]_vars

(* ------------------------------------------------------------------ *)
(* The key-value server under concurrent requests (worker.js)           *)
(* ------------------------------------------------------------------ *)
\* the record after n players joined
RECURSIVE Joined(_)
Joined(n) ==
  IF n <= 1 THEN createGame(HostName, 0)
  ELSE join(Joined(n - 1), Name(n, FALSE), 0).game

\* a full lobby, started by the host
Started == start(Joined(RosterSizes), generatePlayerId(1), 0, 0).game

\* the first proposal of the first leader, which opens the first vote
Proposed ==
  propose(Started, LeaderId(Started),
          Window(Started, Started.leaderIndex + 1, QUEST_SIZES[1]), 0).game

RaceStart ==
  /\ now = 0
  /\ kv = Proposed
  /\ game = Proposed
  /\ last = Asked("propose", LeaderId(Started), TRUE, NullTarget, TRUE)
  /\ streak = 0
  /\ knowledge = NullKnowledge

\* the voters whose request may be in flight: the next MaxHandlers members
\* missing from map
NextMissing(g, map, members) ==
  {q \in members :
     /\ ~HasKey(map, q)
     /\ Cardinality({i \in 1..(FindIndex(g, q) - 1) :
                       g.players[i].id \in members /\ ~HasKey(map, g.players[i].id)})
          < MaxHandlers}

\* the requests that arrive while the stored record is g: the votes still
\* missing, the host's continue, and the host's state poll before the first
\* vote of the first round
RaceRequests(g) ==
  (IF g.phase = TEAM_VOTE
   THEN UNION {{[op |-> "vote", playerId |-> q, value |-> approve] :
                  approve \in VoteValues(g, q)} :
                q \in NextMissing(g, g.votes, PlayerIds(g))}
   ELSE {})
  \cup
  (IF g.phase = VOTE_RESULT
   THEN {[op |-> "continue_vote", playerId |-> g.hostId, value |-> TRUE]}
   ELSE {})
  \cup
  (IF g.phase = TEAM_VOTE /\ KeyCount(g.votes) = 0
   THEN {[op |-> "state", playerId |-> g.hostId, value |-> TRUE]}
   ELSE {})
  \cup
  (IF g.phase = QUEST
   THEN UNION {{[op |-> "quest", playerId |-> q, value |-> success] :
                  success \in QuestVoteValues(g, q)} :
                q \in NextMissing(g, g.questVotes,
                                  {g.proposedTeam[i] : i \in 1..Len(g.proposedTeam)})}
   ELSE {})

\* the synchronous part of a handler, on the record it loaded
Serve(request, loaded, time) ==
  CASE request.op = "vote" -> vote(loaded, request.playerId, request.value, time)
    [] request.op = "continue_vote" -> continueFromVote(loaded, request.playerId, time)
    [] request.op = "quest" -> questVote(loaded, request.playerId, request.value, time)
    [] request.op = "state" -> Accept(touch(loaded, request.playerId, time))

\* await env.GAMES.get(..) and JSON.parse: the handler now holds its own copy
Load(h) ==
  /\ handlers[h].pc = "idle"
  /\ \E request \in RaceRequests(kv) :
       handlers' = [handlers EXCEPT ![h] =
                      [pc |-> "loaded", request |-> request, game |-> kv]]
  /\ UNCHANGED <<acked, gameLocks, callers, serverVars, hostVars>>

\* the guards and mutations on the copy, then await env.GAMES.put(..) and the
\* answer; a throw answers with the error and stores nothing
Store(h) ==
  /\ handlers[h].pc = "loaded"
  /\ LET request == handlers[h].request
         result == Serve(request, handlers[h].game, now)
         ok == result.error = NoError
     IN /\ kv' = IF ok THEN result.game ELSE kv
        /\ game' = result.game
        /\ last' = Asked(request.op, request.playerId, request.value, NullTarget, ok)
        /\ acked' = IF ok /\ request.op \in {"vote", "quest"}
                    THEN acked \cup {<<request.op, request.playerId>>}
                    ELSE acked
  /\ handlers' = [handlers EXCEPT ![h] = Idle]
  /\ UNCHANGED <<now, streak, knowledge, dealt, gameLocks, callers, hostVars>>

NextRace == \E h \in Handlers : Load(h) \/ Store(h)

InitRace == RaceStart /\ HostInit /\ RaceInit /\ DealInit

SpecRace == InitRace /\ [][NextRace]_vars

(* ------------------------------------------------------------------ *)
(* withGameLock (dev-server.js)                                         *)
(* ------------------------------------------------------------------ *)
\* the gameCode each caller passes: two spellings of one code, and another code
GameCodes == <<"GAME", "game", "ROOM">>
CodeOf(c) == GameCodes[((c - 1) % Len(GameCodes)) + 1]

\* the code being locked but not uppercased
gameCode_asGiven(gameCode) == gameCode

\* const code = gameCode.toUpperCase()
toUpperCase(gameCode) == IF gameCode = "game" THEN "GAME" ELSE gameCode

\* the while test and what follows it in the same turn of the event loop:
\* with an entry for the code in gameLocks the caller sleeps 10 ms, without one
\* it sets the entry and starts fn
Test(c) ==
  LET code == toUpperCase(CodeOf(c))
  IN IF code \in gameLocks
     THEN /\ callers' = [callers EXCEPT ![c].pc = "sleeping"]
          /\ UNCHANGED gameLocks
     ELSE /\ gameLocks' = gameLocks \cup {code}
          /\ callers' = [callers EXCEPT ![c].pc = "running"]

\* a request calls withGameLock(code, fn)
Call(c) ==
  /\ callers[c].pc = "idle"
  /\ Test(c)
  /\ UNCHANGED <<serverVars, hostVars, handlers, acked>>

\* the 10 ms timer fires and the while test is made again
Wake(c) ==
  /\ callers[c].pc = "sleeping"
  /\ Test(c)
  /\ UNCHANGED <<serverVars, hostVars, handlers, acked>>

\* fn settles, by returning or by throwing; finally deletes the entry
Settle(c) ==
  /\ callers[c].pc = "running"
  /\ \E outcome \in {"returned", "threw"} :
       callers' = [callers EXCEPT ![c] = [pc |-> "idle", outcome |-> outcome]]
  /\ gameLocks' = gameLocks \ {toUpperCase(CodeOf(c))}
  /\ UNCHANGED <<serverVars, hostVars, handlers, acked>>

NextLock == \E c \in Callers : Call(c) \/ Wake(c) \/ Settle(c)

\* every timer fires and every callback settles; nothing makes a request arrive
LockFairness == \A c \in Callers : WF_vars(Wake(c)) /\ WF_vars(Settle(c))

SpecLock == Init /\ [][NextLock]_vars /\ LockFairness

(* ------------------------------------------------------------------ *)
(* Dealing roles to every party size, and /api/knowledge                *)
(* ------------------------------------------------------------------ *)
DealSeeds == 0..(MaxDeal - 1)

\* /api/join while the lobby has room
JoinRoles ==
  /\ kv.phase = LOBBY
  /\ Len(kv.players) < MaxPlayers
  /\ Handle("join", NullTarget, TRUE, NullTarget,
            join(kv, Name(Len(kv.players) + 1, FALSE), now))

\* /api/start by the host, with any of the seeds
StartRoles ==
  /\ kv.phase = LOBBY
  /\ Len(kv.players) >= MinPlayers - 1
  /\ \E seed \in DealSeeds :
       Handle("start", kv.hostId, TRUE, NullTarget, start(kv, kv.hostId, seed, now))

\* /api/knowledge: refused in the lobby and for a player getPlayerKnowledge
\* does not know; stores nothing
KnowledgeReq ==
  \E playerId \in PlayerIds(kv) \cup {StrangerId} :
    LET answer == IF kv.phase = LOBBY THEN NullKnowledge
                  ELSE getPlayerKnowledge(kv, playerId)
    IN /\ kv.phase # LOBBY \/ playerId \in {kv.hostId, StrangerId}
       /\ knowledge' = answer
       /\ last' = Asked("knowledge", playerId, TRUE, NullTarget, answer # NullKnowledge)
       /\ UNCHANGED <<kv, game, now, streak, dealt, hostVars, raceVars>>

NextRoles == JoinRoles \/ StartRoles \/ KnowledgeReq

SpecRoles == Init /\ [][NextRoles]_vars

(* ------------------------------------------------------------------ *)
(* assignRoles called on its own                                        *)
(* ------------------------------------------------------------------ *)
Parties == MinPlayers..MaxParty

\* a call assignRoles(playerCount) about to be made, for each party size and
\* each seed of the random source
InitAssign ==
  /\ ServerInit /\ HostInit /\ RaceInit
  /\ dealt \in [playerCount : Parties, seed : DealSeeds, roles : {<<>>}]

\* the call: shuffleArray draws once for every entry of the list but the first
Assign ==
  /\ dealt.roles = <<>>
  /\ dealt' = [dealt EXCEPT !.roles =
        assignRoles(dealt.playerCount,
                    SeededDraws(dealt.seed, Len(RoleList(dealt.playerCount))))]
  /\ UNCHANGED <<kv, game, last, now, streak, knowledge, hostVars, raceVars>>

NextAssign == Assign

SpecAssign == InitAssign /\ [][NextAssign]_vars

(* ------------------------------------------------------------------ *)
(* Properties of the engine under one request at a time                 *)
(* ------------------------------------------------------------------ *)
\* a step that serves a request (the clock stands still while it runs)
Request == now' = now
\* the last request was op and was answered with ok
Did(op, ok) == last.op = op /\ last.ok = ok

Accepted(op) == Request /\ last'.op = op /\ last'.ok
Rejected == Request /\ ~last'.ok

\* the phase changes of section 4.4, each with the request that makes it
LegalChange ==
  \/ kv.phase = LOBBY /\ kv'.phase = TEAM_SELECTION /\ Accepted("start")
  \/ kv.phase = TEAM_SELECTION /\ kv'.phase = TEAM_VOTE /\ Accepted("propose")
  \/ /\ kv.phase = TEAM_VOTE /\ kv'.phase = VOTE_RESULT /\ Accepted("vote")
     /\ KeyCount(kv'.votes) = Len(kv'.players)
     /\ KeyCount(kv.votes) = Len(kv.players) - 1
  \/ /\ kv.phase = VOTE_RESULT /\ kv'.phase = QUEST /\ Accepted("continue_vote")
     /\ kv.lastVoteResult.approved
  \/ /\ kv.phase = VOTE_RESULT /\ kv'.phase = TEAM_SELECTION /\ Accepted("continue_vote")
     /\ ~kv.lastVoteResult.approved /\ kv'.rejectCount < 5
  \/ /\ kv.phase = VOTE_RESULT /\ kv'.phase = GAME_OVER /\ Accepted("continue_vote")
     /\ ~kv.lastVoteResult.approved /\ streak = 5
  \/ /\ kv.phase = QUEST /\ kv'.phase = QUEST_RESULT /\ Accepted("quest")
     /\ KeyCount(kv'.questVotes) = Len(kv'.proposedTeam)
  \/ /\ kv.phase = QUEST_RESULT /\ Accepted("continue")
     /\ kv'.phase \in {TEAM_SELECTION, ASSASSINATION, GAME_OVER}
  \/ kv.phase = ASSASSINATION /\ kv'.phase = GAME_OVER /\ Accepted("assassinate")

\* C1: every change of the phase is one of the listed transitions, made by the
\* request listed for it; no other change occurs and lobby is never re-entered.
C1_PhaseChanges ==
  [][kv'.phase # kv.phase => LegalChange /\ kv'.phase # LOBBY]_vars

C1_Witness ==
  /\ kv.phase = GAME_OVER /\ Did("assassinate", TRUE)
  /\ Len(kv.questResults) = 5

\* C2: a rejected request leaves both the object it was applied to and the
\* stored record as they were before the call.
C2_RejectionChangesNothing ==
  [][Rejected => kv' = kv /\ game' = kv]_vars

C2_Witness ==
  /\ Did("vote", FALSE)
  /\ kv.phase = TEAM_VOTE /\ KeyCount(kv.votes) > 0

\* the record without the liveness fields (connected, lastSeen, updatedAt)
Core(g) ==
  [g EXCEPT !.updatedAt = 0,
            !.players = [i \in 1..Len(g.players) |->
               [g.players[i] EXCEPT !.connected = TRUE, !.lastSeen = 0]]]

\* C3 as stated: once the phase is game_over every request, rejoin and state
\* polls included, is rejected and the record never changes.
C3_Original ==
  [][kv.phase = GAME_OVER /\ Request => ~last'.ok /\ kv' = kv]_vars

\* C3 amended: once the phase is game_over every join, start, propose, vote,
\* continueFromVote, questVote, continueFromQuest and assassinate is rejected
\* and changes nothing; rejoin and state polls are still answered and change
\* nothing but the connected, lastSeen and updatedAt fields.
C3_TerminalFrozen ==
  [][kv.phase = GAME_OVER /\ Request =>
       /\ Core(kv') = Core(kv)
       /\ kv'.createdAt = kv.createdAt
       /\ last'.op \notin {"rejoin", "state"} => ~last'.ok /\ kv' = kv]_vars

\* a rejoin answered after the game ended, which moved the timestamps
C3_Witness ==
  /\ kv.phase = GAME_OVER /\ Did("rejoin", TRUE)
  /\ kv.updatedAt > kv.createdAt
  /\ kv.players[FindIndex(kv, kv.hostId)].lastSeen = kv.updatedAt

\* C4: winner and winReason are null outside game_over, non-null in game_over,
\* and never change once set.
C4_WinnerSetOnce ==
  /\ [](kv.phase # GAME_OVER => kv.winner = NullWinner /\ kv.winReason = NullReason)
  /\ [](kv.phase = GAME_OVER => kv.winner # NullWinner /\ kv.winReason # NullReason)
  /\ [][kv.winner # NullWinner
          => kv'.winner = kv.winner /\ kv'.winReason = kv.winReason]_vars

C4_Witness ==
  /\ kv.phase = GAME_OVER /\ kv.winner = "good"
  /\ Did("join", FALSE)

Viewers(g) == PlayerIds(g) \cup {StrangerId}

\* C5: outside game_over no entry of any viewer's public view carries a role;
\* in game_over every entry carries the player's assigned role.
C5_RolesHidden ==
  \A viewer \in Viewers(kv) :
    LET view == getPublicGameState(kv, viewer)
    IN \A i \in 1..Len(kv.players) :
         /\ view.players[i].id = kv.players[i].id
         /\ view.players[i].role =
              (IF kv.phase = GAME_OVER THEN kv.players[i].role ELSE Undefined)
         /\ kv.phase = GAME_OVER => kv.players[i].role \in GOOD_ROLES \cup EVIL_ROLES

C5_Witness ==
  /\ kv.phase = QUEST
  /\ \A i \in 1..Len(kv.players) : kv.players[i].role \in GOOD_ROLES \cup EVIL_ROLES

\* C9: the stored tally approves iff strictly more than half of the roster
\* approved, and its two counts add up to the roster size.
C9_StrictMajority ==
  kv.phase = VOTE_RESULT =>
    LET tally == kv.lastVoteResult
        n == Len(kv.players)
    IN /\ tally.approveCount = CountValues(kv.votes, TRUE)
       /\ tally.approveCount + tally.rejectCount = n
       /\ tally.rejectCount = CountValues(kv.votes, FALSE)
       /\ tally.approved <=> (2 * tally.approveCount > n)

C9_Witness ==
  /\ kv.phase = VOTE_RESULT
  /\ 2 * kv.lastVoteResult.approveCount = Len(kv.players)
  /\ ~kv.lastVoteResult.approved

\* C10: at every quest index the continueFromVote after the fifth rejected
\* proposal in a row ends the game with winner evil, and no continueFromVote
\* after fewer than five in a row ends it.
C10_FiveRejections ==
  [][Accepted("continue_vote") /\ kv.phase = VOTE_RESULT =>
       /\ (kv'.phase = GAME_OVER) <=> (streak = 5)
       /\ kv'.phase = GAME_OVER => kv'.winner = "evil"]_vars

C10_Witness ==
  /\ kv.phase = GAME_OVER /\ kv.winner = "evil" /\ streak = 5
  /\ kv.currentQuest = 4 /\ last.op = "continue_vote"

\* what a 'state' message gives away to the peer it is sent to
Leaks(message) ==
  LET g == message.state
      viewer == message.yourPlayerId
  IN \/ \E i \in 1..Len(g.players) :
          /\ g.players[i].id # viewer
          /\ "role" \in DOMAIN g.players[i]
          /\ g.players[i].role \in GOOD_ROLES \cup EVIL_ROLES
     \/ g.phase = TEAM_VOTE /\ "votes" \in DOMAIN g /\ g.votes # EmptyMap
     \/ "questVotes" \in DOMAIN g /\ g.questVotes # EmptyMap

\* C6: no state message the host has delivered to a peer before game_over
\* carries another player's role, a team-vote value during team_vote, or a
\* quest-vote value.
C6_PayloadsRedacted ==
  \A c \in DOMAIN delivered :
    delivered[c].state.phase # GAME_OVER => ~Leaks(delivered[c])

InFlight == {h \in Handlers : handlers[h].pc = "loaded"}

\* C7: at most one handler is between its GAMES.get and its GAMES.put.
C7_OneInFlight == Cardinality(InFlight) <= 1

\* C8: while a round is open or just tallied, every vote answered with success
\* is in the stored map of that round.
C8_AckedVotesStored ==
  /\ kv.phase \in {TEAM_VOTE, VOTE_RESULT} =>
       \A q \in PlayerIds(kv) : <<"vote", q>> \in acked => HasKey(kv.votes, q)
  /\ kv.phase \in {QUEST, QUEST_RESULT} =>
       \A q \in PlayerIds(kv) : <<"quest", q>> \in acked => HasKey(kv.questVotes, q)

\* the role of roster member playerId
RoleOf(g, playerId) == FindPlayer(g, playerId).role

\* the Evil players on a team
EvilOn(g, team) == {q \in {team[i] : i \in 1..Len(team)} : isEvil(RoleOf(g, q))}

\* C11: a questVote with success = false from a Good player is rejected and
\* leaves questVotes as it was; so every false quest vote is an Evil player's,
\* no result has more fails than its team has Evil players, and a team
\* without Evil players succeeds.
C11_GoodNeverFails ==
  /\ [][/\ Request /\ last'.op = "quest" /\ ~last'.flag
        /\ HasPlayer(kv, last'.by) /\ RoleOf(kv, last'.by) \in GOOD_ROLES
        => ~last'.ok /\ kv'.questVotes = kv.questVotes]_vars
  /\ [](\A q \in DOMAIN kv.questVotes :
          ~kv.questVotes[q] => isEvil(RoleOf(kv, q)))
  /\ [](\A i \in 1..Len(kv.questResults) :
          LET r == kv.questResults[i]
          IN /\ r.failCount <= Cardinality(EvilOn(kv, r.team))
             /\ EvilOn(kv, r.team) = {} => r.success)

\* a Good team member was just refused a fail, on a quest an Evil member failed
C11_Witness ==
  /\ kv.phase = QUEST /\ Did("quest", FALSE) /\ ~last.flag
  /\ Includes(kv.proposedTeam, last.by)
  /\ RoleOf(kv, last.by) \in GOOD_ROLES
  /\ ~HasKey(kv.questVotes, last.by)
  /\ \E q \in DOMAIN kv.questVotes : ~kv.questVotes[q]

\* the fails that make the quest with index q fail
FailsNeeded(q) == IF q = 3 THEN 2 ELSE 1

\* C12: the quest vote that completes the team appends one result whose
\* failCount is the number of false votes and whose success is
\* failCount < the requirement of the quest (2 on index 3, else 1); a quest
\* vote that does not complete the team appends nothing.
C12_QuestResult ==
  [][Accepted("quest") =>
       LET n == Len(kv.questResults)
       IN IF KeyCount(kv'.questVotes) = Len(kv.proposedTeam)
          THEN /\ kv'.phase = QUEST_RESULT
               /\ Len(kv'.questResults) = n + 1
               /\ SubSeq(kv'.questResults, 1, n) = kv.questResults
               /\ kv'.questResults[n + 1].failCount = CountValues(kv'.questVotes, FALSE)
               /\ kv'.questResults[n + 1].successCount = CountValues(kv'.questVotes, TRUE)
               /\ kv'.questResults[n + 1].team = kv.proposedTeam
               /\ kv'.questResults[n + 1].success =
                    (CountValues(kv'.questVotes, FALSE) < FailsNeeded(kv.currentQuest))
          ELSE kv'.phase = QUEST /\ kv'.questResults = kv.questResults]_vars

\* the fourth quest succeeded with exactly one fail
C12_Witness ==
  /\ kv.phase = QUEST_RESULT /\ kv.currentQuest = 3 /\ Did("quest", TRUE)
  /\ Len(kv.questResults) = 4
  /\ kv.questResults[4].failCount = 1
  /\ kv.questResults[4].success

\* the quest results of g that succeeded, and those that failed
Successes(g) == Len(SelectSeq(g.questResults, LAMBDA r : r.success))
Failures(g) == Len(SelectSeq(g.questResults, LAMBDA r : ~r.success))

\* C13: an accepted continueFromQuest is made by the host in quest_result;
\* it moves to assassination iff questResults holds at least 3 successes,
\* to game_over with winner evil iff it holds at least 3 failures, and
\* otherwise adds one to currentQuest, moves the leader one seat on
\* (wrapping), clears proposedTeam, votes and questVotes and moves to
\* team_selection; 3 successes and 3 failures never hold together.
C13_ContinueFromQuest ==
  /\ [][Accepted("continue") =>
        /\ kv.phase = QUEST_RESULT
        /\ HasPlayer(kv, last'.by) /\ FindPlayer(kv, last'.by).isHost
        /\ (kv'.phase = ASSASSINATION) <=> (Successes(kv) >= 3)
        /\ (kv'.phase = GAME_OVER) <=> (Failures(kv) >= 3)
        /\ kv'.phase = GAME_OVER => kv'.winner = "evil"
        /\ kv'.phase \in {ASSASSINATION, GAME_OVER} =>
              /\ kv'.currentQuest = kv.currentQuest
              /\ kv'.leaderIndex = kv.leaderIndex
        /\ kv'.phase \notin {ASSASSINATION, GAME_OVER} =>
              /\ kv'.phase = TEAM_SELECTION
              /\ kv'.currentQuest = kv.currentQuest + 1
              /\ kv'.leaderIndex =
                    (IF kv.leaderIndex = Len(kv.players) - 1 THEN 0
                     ELSE kv.leaderIndex + 1)
              /\ kv'.proposedTeam = <<>>
              /\ kv'.votes = EmptyMap
              /\ kv'.questVotes = EmptyMap
        /\ kv'.players = kv.players
        /\ kv'.questResults = kv.questResults]_vars
  /\ [](~(Successes(kv) >= 3 /\ Failures(kv) >= 3))

\* the next quest was opened from the last seat, so the leader wrapped to seat 0
C13_Witness ==
  /\ Did("continue", TRUE)
  /\ kv.phase = TEAM_SELECTION
  /\ kv.currentQuest >= 1
  /\ kv.leaderIndex = 0
  /\ Successes(kv) >= 1 /\ Failures(kv) >= 1

\* C14: an accepted assassinate ends in game_over with the target recorded;
\* the winner is evil iff the target holds the Samuel role and good for any
\* other roster target, Saul included; a target that is not on the roster
\* is rejected and the phase stays assassination.
C14_Assassination ==
  /\ [][Accepted("assassinate") =>
        /\ kv'.phase = GAME_OVER
        /\ kv'.assassinationTarget = last'.target
        /\ HasPlayer(kv, last'.target)
        /\ (kv'.winner = "evil") <=> (RoleOf(kv, last'.target) = SAMUEL)
        /\ (kv'.winner = "good") <=> (RoleOf(kv, last'.target) # SAMUEL)]_vars
  /\ [][/\ Request /\ last'.op = "assassinate"
        /\ kv.phase = ASSASSINATION /\ ~HasPlayer(kv, last'.target)
        => ~last'.ok /\ kv'.phase = ASSASSINATION]_vars

\* Saul named Saul: the game is over and Good has won
C14_Witness ==
  /\ Did("assassinate", TRUE)
  /\ kv.phase = GAME_OVER
  /\ last.target = last.by
  /\ RoleOf(kv, last.by) = SAUL
  /\ kv.assassinationTarget = last.by
  /\ kv.winner = "good"

\* the player with isHost, or nobody
IsHost(g, playerId) == HasPlayer(g, playerId) /\ FindPlayer(g, playerId).isHost

\* C15: every accepted action was submitted by its authorized actor: start,
\* continueFromVote and continueFromQuest by the player with isHost, propose
\* by players[leaderIndex], vote by a roster member, questVote by a member of
\* proposedTeam, assassinate by the player holding the Saul role.
C15_AuthorizedActor ==
  [][/\ Accepted("start") => IsHost(kv, last'.by)
     /\ Accepted("continue_vote") => IsHost(kv, last'.by)
     /\ Accepted("continue") => IsHost(kv, last'.by)
     /\ Accepted("propose") => last'.by = kv.players[kv.leaderIndex + 1].id
     /\ Accepted("vote") => \E i \in 1..Len(kv.players) : kv.players[i].id = last'.by
     /\ Accepted("quest") =>
           \E i \in 1..Len(kv.proposedTeam) : kv.proposedTeam[i] = last'.by
     /\ Accepted("assassinate") =>
           \E i \in 1..Len(kv.players) :
              kv.players[i].id = last'.by /\ kv.players[i].role = SAUL]_vars

\* a start by a player who is not the host was refused with a full lobby
C15_Witness ==
  /\ Did("start", FALSE)
  /\ kv.phase = LOBBY
  /\ Len(kv.players) >= MinPlayers
  /\ HasPlayer(kv, last.by)
  /\ ~IsHost(kv, last.by)

(* ------------------------------------------------------------------ *)
(* Properties of the deal and of what each player is shown              *)
(* ------------------------------------------------------------------ *)
\* how many players of g hold the role, or one of the roles
Holding(g, roles) == Cardinality({i \in 1..Len(g.players) : g.players[i].role \in roles})

\* the Evil seats at each party size
EvilSeats(n) == IF n = 6 THEN 2 ELSE IF n <= 9 THEN 3 ELSE 4

\* C16: for every party size n in 6..12 the roles dealt hold as many Evil
\* roles as the table says (6:2, 7:3, 8:3, 9:3, 10:4, 11:4, 12:4), exactly one
\* Samuel, David, Saul and Phinehas, exactly one Doeg iff the Evil count is at
\* least 3 and none otherwise, Sheep in the remaining Evil seats and Mighty
\* Men in the remaining Good seats.
C16_RolesDealt ==
  kv.phase # LOBBY =>
    LET n == Len(kv.players)
        evil == EvilSeats(n)
    IN /\ n \in 6..12
       /\ Holding(kv, {SAUL, PHINEHAS, DOEG, SHEEP}) = evil
       /\ Holding(kv, {SAMUEL}) = 1
       /\ Holding(kv, {DAVID}) = 1
       /\ Holding(kv, {SAUL}) = 1
       /\ Holding(kv, {PHINEHAS}) = 1
       /\ Holding(kv, {DOEG}) = (IF evil >= 3 THEN 1 ELSE 0)
       /\ Holding(kv, {SHEEP}) = (IF evil >= 3 THEN evil - 3 ELSE 0)
       /\ Holding(kv, {MIGHTY_MAN}) = n - evil - 2

\* a party of ten was dealt one Doeg and one Sheep
C16_Witness ==
  /\ Did("start", TRUE)
  /\ Len(kv.players) = 10
  /\ Holding(kv, {DOEG}) = 1
  /\ Holding(kv, {SHEEP}) = 1
  /\ Holding(kv, {MIGHTY_MAN}) = 4

\* the ids on a sees list
SeenIds(sees) == {sees[i].id : i \in 1..Len(sees)}
\* the ids of the players of g that hold one of the roles
IdsHolding(g, roles) ==
  {g.players[i].id : i \in {j \in 1..Len(g.players) : g.players[j].role \in roles}}
\* the last request asked for a player's knowledge and was answered with it
Answered == last.op = "knowledge" /\ last.ok

\* C17: in every deal, the Doeg player's sees list is empty, no Saul,
\* Phinehas or Sheep player's list contains the Doeg player, and each of Saul,
\* Phinehas and Sheep sees exactly every other Evil player except Doeg, and
\* never themself.
C17_DoegApart ==
  Answered =>
    /\ knowledge.role = RoleOf(kv, last.by)
    /\ knowledge.role = DOEG => knowledge.sees = <<>>
    /\ knowledge.role \in {SAUL, PHINEHAS, SHEEP} =>
          /\ SeenIds(knowledge.sees) \cap IdsHolding(kv, {DOEG}) = {}
          /\ last.by \notin SeenIds(knowledge.sees)
          /\ SeenIds(knowledge.sees) = IdsHolding(kv, {SAUL, PHINEHAS, SHEEP}) \ {last.by}
          /\ Len(knowledge.sees) = Cardinality(SeenIds(knowledge.sees))

\* the Sheep of a party of ten or more, which has a Doeg, was shown Saul and
\* Phinehas and nobody else
C17_Witness ==
  /\ Answered
  /\ knowledge.role = SHEEP
  /\ Holding(kv, {DOEG}) = 1
  /\ SeenIds(knowledge.sees) = IdsHolding(kv, {SAUL, PHINEHAS})

\* C18: for every deal and every player the sees list is the one of the
\* visibility table: Samuel sees every Evil player except Saul, Doeg
\* included, each labelled 'Evil'; David sees exactly the Samuel player and
\* the Phinehas player under one and the same label; Doeg and the Mighty Men
\* see nobody; and no Good player is on anyone's list, except Samuel on
\* David's.
C18_VisibilityTable ==
  Answered =>
    LET sees == knowledge.sees
    IN /\ Len(sees) = Cardinality(SeenIds(sees))
       /\ knowledge.role = SAMUEL =>
             /\ SeenIds(sees) = IdsHolding(kv, {PHINEHAS, DOEG, SHEEP})
             /\ \A i \in 1..Len(sees) : sees[i].label = "Evil"
       /\ knowledge.role = DAVID =>
             /\ SeenIds(sees) = IdsHolding(kv, {SAMUEL, PHINEHAS})
             /\ Len(sees) = 2
             /\ sees[1].label = sees[2].label
       /\ knowledge.role \in {DOEG, MIGHTY_MAN} => sees = <<>>
       /\ \A i \in 1..Len(sees) :
             RoleOf(kv, sees[i].id) \in {SAMUEL, DAVID, MIGHTY_MAN} =>
               RoleOf(kv, sees[i].id) = SAMUEL /\ knowledge.role = DAVID

\* Samuel was shown Doeg, Phinehas and the Sheep, and not Saul
C18_Witness ==
  /\ Answered
  /\ knowledge.role = SAMUEL
  /\ Holding(kv, {SHEEP}) = 1
  /\ Len(knowledge.sees) = 3
  /\ IdsHolding(kv, {DOEG}) \subseteq SeenIds(knowledge.sees)
  /\ IdsHolding(kv, {SAUL}) \cap SeenIds(knowledge.sees) = {}

(* ------------------------------------------------------------------ *)
(* Secrecy of the votes                                                 *)
(* ------------------------------------------------------------------ *)
\* g with every vote cast so far turned into an approval: two records that
\* differ only in how the voters so far voted have the same one
AllApprove(g) == [g EXCEPT !.votes = [p \in DOMAIN g.votes |-> TRUE]]

\* C19: while the phase is team_vote and the vote is incomplete, neither a
\* public view (of any viewer) nor /api/vote-results depends on how anybody
\* voted: a roster member is shown the ids that have voted and their own
\* has-voted flag, anyone else not even that; from vote_result on the view
\* shows each player's vote.
C19_VotesSecret ==
  /\ kv.phase = TEAM_VOTE /\ KeyCount(kv.votes) < Len(kv.players) =>
        /\ voteResults(kv).error # NoError
        /\ voteResults(AllApprove(kv)) = voteResults(kv)
        /\ AllApprove(kv) # kv =>
              \A viewer \in Viewers(kv) :
                getPublicGameState(AllApprove(kv), viewer) = getPublicGameState(kv, viewer)
        /\ \A viewer \in Viewers(kv) :
              LET view == getPublicGameState(kv, viewer)
              IN IF HasPlayer(kv, viewer)
                 THEN /\ view.votedPlayers = DOMAIN kv.votes
                      /\ view.hasVoted = (viewer \in DOMAIN kv.votes)
                 ELSE {"votedPlayers", "hasVoted"} \cap DOMAIN view = {}
  /\ kv.phase = VOTE_RESULT =>
        /\ voteResults(kv).votes = kv.votes
        /\ \A viewer \in PlayerIds(kv) :
              LET view == getPublicGameState(kv, viewer)
              IN \A i \in 1..Len(kv.players) :
                   /\ view.voteDetails[i].id = kv.players[i].id
                   /\ view.voteDetails[i].approved =
                        (IF kv.votes[kv.players[i].id] THEN "true" ELSE "false")

\* a vote under way in which an approval and a rejection have been cast
C19_Witness ==
  /\ kv.phase = TEAM_VOTE
  /\ Did("vote", TRUE)
  /\ KeyCount(kv.votes) < Len(kv.players)
  /\ \E p, q \in DOMAIN kv.votes : kv.votes[p] /\ ~kv.votes[q]

\* g with every quest vote cast so far turned into a success: two records
\* that differ only in which way the team members voted have the same one
AllSucceed(g) == [g EXCEPT !.questVotes = [p \in DOMAIN g.questVotes |-> TRUE]]

\* the fields of a quest result
ResultFields == {"success", "failCount", "successCount", "team"}

\* C20: in every phase, game_over included, and for every viewer, the public
\* view does not depend on which way any team member voted on the quest:
\* during the quest a roster member is shown only the ids that have
\* submitted, and a result carries only the outcome, the two counts and the
\* team.
C20_QuestVotesSecret ==
  \A viewer \in Viewers(kv) :
    LET view == getPublicGameState(kv, viewer)
    IN /\ AllSucceed(kv) # kv => getPublicGameState(AllSucceed(kv), viewer) = view
       /\ "questVotes" \notin DOMAIN view
       /\ \A i \in 1..Len(view.questResults) :
             DOMAIN view.questResults[i] = ResultFields
       /\ kv.phase = QUEST /\ HasPlayer(kv, viewer) =>
             /\ view.questVotedPlayers = DOMAIN kv.questVotes
             /\ view.hasQuestVoted = (viewer \in DOMAIN kv.questVotes)
       /\ kv.phase = QUEST_RESULT /\ HasPlayer(kv, viewer) =>
             DOMAIN view.lastQuestResult = ResultFields

\* the game is over and the record still holds a failure and a success of
\* the last quest
C20_Witness ==
  /\ kv.phase = GAME_OVER
  /\ \E p, q \in DOMAIN kv.questVotes : kv.questVotes[p] /\ ~kv.questVotes[q]

(* ------------------------------------------------------------------ *)
(* Reads, writes and replays                                            *)
(* ------------------------------------------------------------------ *)
\* handler h answers a request to op in this step
Answers(h, op) ==
  /\ handlers[h].pc = "loaded"
  /\ handlers[h].request.op = op
  /\ handlers'[h].pc = "idle"

\* C21: answering a state poll never modifies or stores the game record, so
\* a poll interleaved with another player's action cannot overwrite what
\* that action stored.
C21_PollsStoreNothing ==
  [][(\E h \in Handlers : Answers(h, "state")) => kv' = kv]_vars

\* the records the Action Engine can leave the host with in one step: the
\* outcome of an accepted action, or of a peer's join or return
EngineResults(g) ==
  {call.result.game : call \in {c \in HostCalls(g, now) : c.result.error = NoError}}
    \cup {onopen(g, playerId, Name(k, FALSE), now).game :
            k \in Peers, playerId \in {PeerId(i) : i \in Peers} \cup {SecondId(i) : i \in Peers}}

\* C22: the host's record changes only as the result of an accepted action
\* of the Action Engine; a message from a participant never replaces it with
\* a record the participant supplied. (A host that lost its record has none.)
C22_OnlyEngineWrites ==
  [][gameState' # gameState /\ gameState' # NullGame =>
       gameState' \in EngineResults(gameState)]_vars

\* the actions whose replay is considered
Replayable ==
  {"start", "propose", "vote", "continue_vote", "quest", "continue", "assassinate"}

\* C23, one request at a time: a request that repeats the accepted request
\* before it (same endpoint, player and arguments) is rejected and changes
\* nothing; an accepted join adds a name the roster did not hold, so a
\* repeated join is rejected too.
C23_ReplayRejected ==
  /\ [][/\ Request /\ last.ok /\ last'.op \in Replayable
        /\ last'.op = last.op /\ last'.by = last.by
        /\ last'.flag = last.flag /\ last'.target = last.target
        => ~last'.ok /\ kv' = kv]_vars
  /\ [][Accepted("join") =>
          /\ Len(kv'.players) = Len(kv.players) + 1
          /\ \A i \in 1..Len(kv.players) :
                toLowerCase(kv.players[i].name) #
                  toLowerCase(kv'.players[Len(kv'.players)].name)]_vars

\* C23, concurrent copies: a continue request answered when the stored record
\* has already been continued (a second copy of one that was served) changes
\* nothing, so it cannot undo an action accepted in between.
C23_SecondCopyHarmless ==
  [][/\ \E h \in Handlers : Answers(h, "continue_vote")
     /\ kv.phase \in {QUEST, TEAM_SELECTION}
     => kv' = kv]_vars

(* ------------------------------------------------------------------ *)
(* The game lock                                                        *)
(* ------------------------------------------------------------------ *)
\* C24: a caller waiting in withGameLock eventually runs its callback, given
\* that every callback settles.
C24_WaiterAcquires ==
  \A c \in Callers : (callers[c].pc = "sleeping") ~> (callers[c].pc = "running")

\* the entry is there exactly while one callback runs, and never two run
C24_LockHeldByOne ==
  /\ \A code \in gameLocks :
       Cardinality({c \in Callers :
         callers[c].pc = "running" /\ toUpperCase(CodeOf(c)) = code}) = 1
  /\ \A c \in Callers :
       callers[c].pc = "running" => toUpperCase(CodeOf(c)) \in gameLocks

(* ------------------------------------------------------------------ *)
(* Rounds, teams and counters                                           *)
(* ------------------------------------------------------------------ *)
\* C25: within one voting round each roster member's vote is recorded at
\* most once (a second vote by the same player is rejected and leaves the
\* recorded value), callers who are not on the roster are rejected, and the
\* phase leaves team_vote exactly when the votes map covers every roster
\* member, never earlier; the tally then holds those votes and proposedTeam.
C25_VoteOnce ==
  /\ [][Accepted("vote") =>
          /\ HasPlayer(kv, last'.by)
          /\ last'.by \notin DOMAIN kv.votes
          /\ DOMAIN kv'.votes = DOMAIN kv.votes \cup {last'.by}
          /\ kv'.votes[last'.by] = last'.flag
          /\ \A q \in DOMAIN kv.votes : kv'.votes[q] = kv.votes[q]]_vars
  /\ [][/\ Request /\ last'.op = "vote" /\ kv.phase = TEAM_VOTE
        /\ ~HasPlayer(kv, last'.by) \/ last'.by \in DOMAIN kv.votes
        => ~last'.ok /\ kv' = kv]_vars
  /\ [][Request /\ kv.phase = TEAM_VOTE =>
          IF DOMAIN kv'.votes = PlayerIds(kv)
          THEN /\ last'.op = "vote" /\ last'.ok
               /\ kv'.phase = VOTE_RESULT
               /\ kv'.lastVoteResult.votes = kv'.votes
               /\ kv'.lastVoteResult.team = kv.proposedTeam
               /\ kv'.proposedTeam = kv.proposedTeam
          ELSE kv'.phase = TEAM_VOTE]_vars
  /\ [](kv.phase = TEAM_VOTE =>
          DOMAIN kv.votes \subseteq PlayerIds(kv) /\ DOMAIN kv.votes # PlayerIds(kv))

\* a player who had approved voted again, to reject, and was refused
C25_Witness ==
  /\ kv.phase = TEAM_VOTE
  /\ Did("vote", FALSE)
  /\ HasKey(kv.votes, last.by)
  /\ kv.votes[last.by] /\ ~last.flag

\* the ids of a team, duplicates collapsed
Members(team) == {team[i] : i \in 1..Len(team)}

Teamed == {TEAM_VOTE, VOTE_RESULT, QUEST, QUEST_RESULT}

\* C26: in team_vote, vote_result, quest and quest_result proposedTeam
\* consists of exactly QUEST_SIZES[currentQuest] pairwise distinct ids, each
\* the id of a roster player; in lobby and team_selection it is empty.
C26_TeamWellFormed ==
  /\ kv.phase \in Teamed =>
       /\ Len(kv.proposedTeam) = QUEST_SIZES[kv.currentQuest + 1]
       /\ Members(kv.proposedTeam) \subseteq PlayerIds(kv)
       /\ Cardinality(Members(kv.proposedTeam)) = Len(kv.proposedTeam)
  /\ kv.phase \in {LOBBY, TEAM_SELECTION} => kv.proposedTeam = <<>>

\* the same without the distinctness of the members
C26_TeamSized ==
  /\ kv.phase \in Teamed =>
       /\ Len(kv.proposedTeam) = QUEST_SIZES[kv.currentQuest + 1]
       /\ Members(kv.proposedTeam) \subseteq PlayerIds(kv)
  /\ kv.phase \in {LOBBY, TEAM_SELECTION} => kv.proposedTeam = <<>>

\* C27: in quest phase, as soon as every distinct member of proposedTeam has
\* submitted a quest vote the phase is quest_result with exactly one new
\* questResults entry; it is never the case that all team members have voted
\* while the phase is still quest.
C27_QuestCompletes ==
  kv.phase = QUEST => ~(Members(kv.proposedTeam) \subseteq DOMAIN kv.questVotes)

\* the step of the claim: the quest vote that brings in the last member
C27_LastVoteEnds ==
  [][/\ Accepted("quest") /\ kv.phase = QUEST
     /\ Members(kv.proposedTeam) \subseteq DOMAIN kv.questVotes \cup {last'.by}
     => /\ kv'.phase = QUEST_RESULT
        /\ Len(kv'.questResults) = Len(kv.questResults) + 1]_vars

\* with teams of distinct members the quest does complete
C27_DistinctTeamsComplete ==
  kv.phase = QUEST /\ Cardinality(Members(kv.proposedTeam)) = Len(kv.proposedTeam)
    => ~(Members(kv.proposedTeam) \subseteq DOMAIN kv.questVotes)

\* C28: rejectCount equals the number of consecutive rejected proposals since
\* the last approved one (or since the start): it grows by exactly one on each
\* continueFromVote of a rejected proposal, is set to 0 on each
\* continueFromVote of an approved one, is changed by no other action, and
\* always lies in 0..5, equal to 5 only in game_over.
C28_RejectCount ==
  /\ [][Accepted("continue_vote") =>
          kv'.rejectCount = IF kv.lastVoteResult.approved THEN 0
                            ELSE kv.rejectCount + 1]_vars
  /\ [][kv'.rejectCount # kv.rejectCount => Accepted("continue_vote")]_vars
  /\ [](/\ kv.rejectCount \in 0..MaxRejects
        /\ kv.rejectCount = MaxRejects => kv.phase = GAME_OVER
        /\ IF kv.phase = VOTE_RESULT
             THEN streak = IF kv.lastVoteResult.approved THEN 0
                           ELSE kv.rejectCount + 1
             ELSE kv.rejectCount = streak)

\* the second rejected proposal in a row was continued from
C28_Witness ==
  /\ Did("continue_vote", TRUE)
  /\ kv.phase = TEAM_SELECTION
  /\ kv.rejectCount = 2 /\ streak = 2

\* C29: whenever the phase is team_selection, proposedTeam, votes and
\* questVotes are all empty; at the step where the phase becomes team_vote
\* votes is empty, and at the step where it becomes quest questVotes is empty.
C29_RoundsStartEmpty ==
  /\ [](kv.phase = TEAM_SELECTION =>
          kv.proposedTeam = <<>> /\ kv.votes = EmptyMap /\ kv.questVotes = EmptyMap)
  /\ [][kv.phase # TEAM_VOTE /\ kv'.phase = TEAM_VOTE => kv'.votes = EmptyMap]_vars
  /\ [][kv.phase # QUEST /\ kv'.phase = QUEST => kv'.questVotes = EmptyMap]_vars

\* the second quest's selection opened after a quest in which votes were cast
C29_Witness ==
  /\ Did("continue", TRUE)
  /\ kv.phase = TEAM_SELECTION
  /\ kv.currentQuest = 1 /\ Len(kv.questResults) = 1
  /\ kv.questResults[1].successCount + kv.questResults[1].failCount = QUEST_SIZES[1]

\* C30: questResults only grows: every accepted action leaves it unchanged or
\* appends exactly one entry (only the questVote that completes a quest
\* appends), existing entries never change, and its length never exceeds 5.
C30_ResultsAppendOnly ==
  /\ [][kv'.questResults # kv.questResults =>
          /\ Accepted("quest")
          /\ kv.phase = QUEST /\ kv'.phase = QUEST_RESULT
          /\ Len(kv'.questResults) = Len(kv.questResults) + 1
          /\ SubSeq(kv'.questResults, 1, Len(kv.questResults)) = kv.questResults]_vars
  /\ [][Accepted("quest") /\ kv'.phase = QUEST => kv'.questResults = kv.questResults]_vars
  /\ [](Len(kv.questResults) <= Len(QUEST_SIZES))

\* a second result was appended behind the first
C30_Witness ==
  /\ Did("quest", TRUE)
  /\ kv.phase = QUEST_RESULT
  /\ Len(kv.questResults) = 2

(* ------------------------------------------------------------------ *)
(* Record invariants                                                    *)
(* ------------------------------------------------------------------ *)
\* C31: currentQuest is always in 0..4; questResults has length currentQuest
\* in team_selection, team_vote, vote_result and quest, and length
\* currentQuest + 1 in quest_result and in assassination; continueFromQuest
\* never moves currentQuest past 4.
C31_QuestIndex ==
  /\ [](/\ kv.currentQuest \in 0..(Len(QUEST_SIZES) - 1)
        /\ kv.phase \in {TEAM_SELECTION, TEAM_VOTE, VOTE_RESULT, QUEST}
             => Len(kv.questResults) = kv.currentQuest
        /\ kv.phase \in {QUEST_RESULT, ASSASSINATION}
             => Len(kv.questResults) = kv.currentQuest + 1)
  /\ [][kv'.currentQuest # kv.currentQuest =>
          /\ Accepted("continue")
          /\ kv'.currentQuest = kv.currentQuest + 1
          /\ kv'.currentQuest < Len(QUEST_SIZES)]_vars
  /\ [][Accepted("continue") /\ Len(kv.questResults) = Len(QUEST_SIZES)
          => kv'.phase \in {ASSASSINATION, GAME_OVER}]_vars

\* the fifth quest was decided and continued from
C31_Witness ==
  /\ Did("continue", TRUE)
  /\ kv.currentQuest = 4
  /\ Len(kv.questResults) = 5

\* whether the roster of record g is well formed: at most MaxPlayers entries,
\* ids pairwise distinct, names pairwise distinct ignoring case
RosterSound(g) ==
  /\ Len(g.players) <= MaxPlayers
  /\ \A i, j \in 1..Len(g.players) :
       i # j => /\ g.players[i].id # g.players[j].id
                /\ toLowerCase(g.players[i].name) # toLowerCase(g.players[j].name)

\* the ids and names of the roster, seat by seat
Seats(g) == [i \in 1..Len(g.players) |-> <<g.players[i].id, g.players[i].name>>]

\* C32 on the key-value server
C32_ServerRoster ==
  /\ [](RosterSound(kv))
  /\ [][Seats(kv') # Seats(kv) =>
          /\ Accepted("join") /\ kv.phase = LOBBY
          /\ SubSeq(Seats(kv'), 1, Len(kv.players)) = Seats(kv)
          /\ Len(kv'.players) = Len(kv.players) + 1]_vars

\* C32: the roster changes only through an accepted join while the phase is
\* lobby: every reachable roster has at most 12 players with pairwise distinct
\* ids and names pairwise distinct ignoring case, and once the phase has left
\* lobby no player is ever added or removed.
C32_RosterFixed ==
  /\ [](gameState # NullGame => RosterSound(gameState))
  /\ [][gameState.phase \notin {LOBBY, "null"} /\ gameState' # NullGame
          => Len(gameState'.players) = Len(gameState.players)]_vars
  /\ [](gameState # NullGame =>
          \A c \in DOMAIN delivered :
            delivered[c].state.phase \notin {LOBBY, "null"}
              => Len(delivered[c].state.players) <= Len(gameState.players))

\* the roles of the roster, seat by seat
Roles(g) == [i \in 1..Len(g.players) |-> g.players[i].role]

\* how often role occurs in a sequence of roles
Times(roles, role) == Cardinality({i \in 1..Len(roles) : roles[i] = role})

\* C33: every player's role is null exactly while the phase is lobby (so the
\* knowledge of every player is 'not available'); start is accepted only from
\* the host, in lobby, with at least 6 players; in every later phase every
\* roster player holds a role, the roster's roles are the roles assignRoles
\* deals for the roster size, with exactly one Saul and one Samuel, and the
\* roles never change again.
C33_RolesFromStart ==
  /\ [](kv.phase = LOBBY =>
          \A i \in 1..Len(kv.players) :
            /\ kv.players[i].role = NullRole
            /\ getPlayerKnowledge(kv, kv.players[i].id) = NullKnowledge)
  /\ [](kv.phase # LOBBY =>
          /\ \A i \in 1..Len(kv.players) : kv.players[i].role # NullRole
          /\ \A role \in {SAMUEL, DAVID, MIGHTY_MAN, SAUL, PHINEHAS, DOEG, SHEEP} :
               Times(Roles(kv), role) = Times(RoleList(Len(kv.players)), role)
          /\ Times(Roles(kv), SAUL) = 1 /\ Times(Roles(kv), SAMUEL) = 1)
  /\ [][Accepted("start") =>
          /\ IsHost(kv, last'.by)
          /\ kv.phase = LOBBY /\ kv'.phase = TEAM_SELECTION
          /\ Len(kv.players) >= MinPlayers]_vars
  /\ [][kv.phase # LOBBY => Roles(kv') = Roles(kv)]_vars

\* a game played to its end with the roles dealt at the start
C33_Witness ==
  /\ kv.phase = GAME_OVER
  /\ kv.assassinationTarget # NullTarget
  /\ Times(Roles(kv), NullRole) = 0
  /\ Times(Roles(kv), SAUL) = 1

\* C34: assignRoles(n) returns a sequence of exactly n roles for every party
\* size n >= 6 it is given, including n > 12, where the 12-player table is used.
C34_AssignLength ==
  dealt.roles # <<>> => Len(dealt.roles) = dealt.playerCount

\* the same for the party sizes of the table
C34_TableSizes ==
  dealt.roles # <<>> /\ dealt.playerCount <= MaxPlayers
    => Len(dealt.roles) = dealt.playerCount

\* whether every id record g refers to is the id of a player on its roster
IdsOnRoster(g) ==
  /\ DOMAIN g.votes \subseteq PlayerIds(g)
  /\ DOMAIN g.questVotes \subseteq PlayerIds(g)
  /\ Members(g.proposedTeam) \subseteq PlayerIds(g)
  /\ g.hostId \in PlayerIds(g)

\* whether the roster of g is kept in h, seat by seat, with the same ids
SameSeats(g, h) ==
  /\ Len(h.players) >= Len(g.players)
  /\ \A i \in 1..Len(g.players) : h.players[i].id = g.players[i].id

\* C35 on the key-value server
C35_ServerIds ==
  /\ [](IdsOnRoster(kv))
  /\ [][SameSeats(kv, kv')]_vars

\* C35: a player's id never changes after the player is created and players are
\* never removed, so every key of votes and questVotes, every element of
\* proposedTeam and hostId is the id of a current roster player, and no roster
\* slot contributes two votes to one round.
C35_IdsKept ==
  /\ [](gameState # NullGame => IdsOnRoster(gameState))
  /\ [][gameState # NullGame /\ gameState' # NullGame
          => SameSeats(gameState, gameState')]_vars

\* the leader moved on by one seat, wrapping at the roster length
LeaderAdvanced ==
  kv'.leaderIndex = (kv.leaderIndex + 1) % Len(kv.players)

\* C36: leaderIndex is always a valid index 0..N-1 into the roster; after start
\* it changes only in continueFromVote after a non-final rejection and in
\* continueFromQuest when the game continues, each time to
\* (leaderIndex + 1) mod N; an approved proposal, votes, quest votes and
\* rejected actions leave it unchanged.
C36_LeaderRotation ==
  /\ [](kv.leaderIndex \in 0..(Len(kv.players) - 1))
  /\ [][kv.phase # LOBBY /\ kv'.leaderIndex # kv.leaderIndex =>
          /\ kv'.phase = TEAM_SELECTION
          /\ \/ Accepted("continue_vote") /\ ~kv.lastVoteResult.approved
             \/ Accepted("continue")
          /\ LeaderAdvanced]_vars
  /\ [][/\ Accepted("continue_vote") \/ Accepted("continue")
        /\ kv'.phase = TEAM_SELECTION
        => LeaderAdvanced]_vars
  /\ [][Request /\ kv'.phase # TEAM_SELECTION /\ kv.phase # LOBBY
          => kv'.leaderIndex = kv.leaderIndex]_vars

\* after a rejected proposal the lead passed from the last seat to the first
C36_Witness ==
  /\ Did("continue_vote", TRUE)
  /\ kv.phase = TEAM_SELECTION
  /\ kv.rejectCount >= 1
  /\ kv.leaderIndex = 0

\* record g with every player disconnected and never seen
Gone(g) ==
  [g EXCEPT !.players =
     [i \in 1..Len(g.players) |->
        [g.players[i] EXCEPT !.connected = FALSE, !.lastSeen = 0]]]

\* record g without its liveness fields and its time stamp
Rules(g) == [Gone(g) EXCEPT !.updatedAt = 0]

\* the requests whose body the step leaves on record (an accepted propose
\* leaves its team in proposedTeam, an accepted join its name on the roster)
Replayed ==
  \/ last'.op \in {"rejoin", "vote", "continue_vote", "quest", "continue", "assassinate"}
  \/ last'.op \in {"propose", "join"} /\ last'.ok

\* the action of the step's request, called on record g
Replay(g) ==
  CASE last'.op = "rejoin" -> rejoin(g, last'.by, now)
    [] last'.op = "vote" -> vote(g, last'.by, last'.flag, now)
    [] last'.op = "continue_vote" -> continueFromVote(g, last'.by, now)
    [] last'.op = "quest" -> questVote(g, last'.by, last'.flag, now)
    [] last'.op = "continue" -> continueFromQuest(g, last'.by, now)
    [] last'.op = "assassinate" -> assassinate(g, last'.by, last'.target, now)
    [] last'.op = "propose" -> propose(g, last'.by, kv'.proposedTeam, now)
    [] last'.op = "join" -> join(g, kv'.players[Len(kv'.players)].name, now)

\* C37: rejoin by a known player id changes only that player's connected and
\* lastSeen (and the record's updatedAt) and leaves phase, roles, votes,
\* questVotes, proposedTeam, leaderIndex, rejectCount, currentQuest,
\* questResults and winner unchanged; no action's guard or outcome depends on
\* any player's connected or lastSeen value.
C37_LivenessAdvisory ==
  /\ [][Accepted("rejoin") =>
          /\ HasPlayer(kv, last'.by)
          /\ kv' = [kv EXCEPT
                      !.players[FindIndex(kv, last'.by)].connected = TRUE,
                      !.players[FindIndex(kv, last'.by)].lastSeen = now,
                      !.updatedAt = now]]_vars
  /\ [][Request /\ Replayed =>
          LET here == Replay(kv)
              gone == Replay(Gone(kv))
          IN /\ (here.error = NoError) = last'.ok
             /\ last'.ok => here.game = kv'
             /\ gone.error = here.error
             /\ Rules(gone.game) = Rules(here.game)]_vars

\* the host came back after the clock had moved, the game being decided
C37_Witness ==
  /\ Did("rejoin", TRUE)
  /\ kv.winner # NullWinner /\ Len(kv.questResults) >= 3
  /\ now > 0
  /\ FindPlayer(kv, last.by).lastSeen = now

\* whether two codes are equal ignoring case
SameCode(a, b) == a = b \/ {a, b} = {"GAME", "game"}

Running(c) == callers[c].pc = "running"

\* C38: withGameLock gives mutual exclusion per game code: at most one
\* callback runs at a time for codes that are equal ignoring case, and a
\* callback running for one code never delays a caller for a different code.
C38_PerCodeExclusion ==
  /\ [](\A c, d \in Callers :
          c # d /\ Running(c) /\ Running(d) => ~SameCode(CodeOf(c), CodeOf(d)))
  /\ [][\A c \in Callers :
          callers[c].pc = "idle" /\ callers'[c].pc = "sleeping"
            => \E d \in Callers \ {c} :
                 Running(d) /\ SameCode(CodeOf(c), CodeOf(d))]_vars
  /\ [][\A c \in Callers :
          /\ callers[c].pc \in {"idle", "sleeping"}
          /\ callers'[c].pc # callers[c].pc
          /\ \A d \in Callers \ {c} : Running(d) => ~SameCode(CodeOf(c), CodeOf(d))
          => callers'[c].pc = "running"]_vars

\* a callback for ROOM started while one for GAME ran and a caller giving the
\* code as game waited
C38_Witness ==
  /\ Running(1) /\ Running(3)
  /\ callers[2].pc = "sleeping"

\* whether some player has a game action that record g accepts
CanAct(g) ==
  \E playerId \in PlayerIds(g) :
    \/ propose(g, playerId,
               Window(g, g.leaderIndex + 1, QUEST_SIZES[g.currentQuest + 1]), now).error = NoError
    \/ \E flag \in BOOLEAN :
         \/ vote(g, playerId, flag, now).error = NoError
         \/ questVote(g, playerId, flag, now).error = NoError
    \/ continueFromVote(g, playerId, now).error = NoError
    \/ continueFromQuest(g, playerId, now).error = NoError
    \/ \E targetId \in PlayerIds(g) :
         assassinate(g, playerId, targetId, now).error = NoError

\* C39: every started game terminates: while the players keep submitting the
\* actions available to them the game reaches game_over, so a started game
\* that is not over always has an action some player can take.
C39_NeverStuck ==
  kv.phase \notin {LOBBY, GAME_OVER} => CanAct(kv)

\* the same for the games whose teams hold no player twice
C39_DistinctTeamsNeverStuck ==
  /\ kv.phase \notin {LOBBY, GAME_OVER}
  /\ Cardinality(Members(kv.proposedTeam)) = Len(kv.proposedTeam)
  => CanAct(kv)

\* whether Saul's target on record is a roster player holding Samuel or not
TargetIsSamuel(g) ==
  HasPlayer(g, g.assassinationTarget) /\ RoleOf(g, g.assassinationTarget) = SAMUEL

\* C40: the recorded winner always has a matching cause in the state: winner
\* is good only if questResults holds at least 3 successes and
\* assassinationTarget is a roster player whose role is not Samuel; winner is
\* evil only if rejectCount = 5, or questResults holds at least 3 failures,
\* or assassinationTarget is the Samuel player; assassinationTarget is
\* non-null only in game_over, so the assassinationReady flag shown during the
\* assassination phase is always false.
C40_WinnerHasCause ==
  /\ kv.winner = "good" =>
       /\ CountResults(kv, TRUE) >= WinsNeeded
       /\ HasPlayer(kv, kv.assassinationTarget)
       /\ ~TargetIsSamuel(kv)
  /\ kv.winner = "evil" =>
       \/ kv.rejectCount = MaxRejects
       \/ CountResults(kv, FALSE) >= WinsNeeded
       \/ TargetIsSamuel(kv)
  /\ kv.winner \in {NullWinner, "good", "evil"}
  /\ kv.assassinationTarget # NullTarget => kv.phase = GAME_OVER
  /\ kv.phase = ASSASSINATION =>
       \A playerId \in PlayerIds(kv) :
         ~getPublicGameState(kv, playerId).assassinationReady

\* Saul named a Mighty Man and Good won
C40_Witness ==
  /\ Did("assassinate", TRUE)
  /\ kv.winner = "good"
  /\ RoleOf(kv, kv.assassinationTarget) \notin {SAMUEL, SAUL}

====
